---- MODULE Spec2Model ----
(***************************************************************************)
(* A model of the MCP server generator: the resolver (AIGenerator), the    *)
(* configuration builder (MCPServerGenerator) and the renderer             *)
(* (TemplateEngine).  Strings are TLA+ strings, handled character by       *)
(* character the way the JavaScript string methods and regular expressions *)
(* of the source handle them.                                              *)
(***************************************************************************)
EXTENDS Naturals, Sequences, FiniteSets, TLC

VARIABLES
    pc,             \* position of generateServerConfig: idle, analyze, synthesize, returned, threw
    description,    \* the description passed to generateServerConfig
    analysis,       \* the analysis the resolver works from (the AI's, or the fallback)
    analyzeOutcome, \* how the analysis call ended: none, ok, throws, no_content, invalid_json
    toolPatterns,   \* selectToolPatterns' result (pattern ids, in order)
    integrations,   \* selectIntegrations' result (integration ids, in order)
    customTools,    \* the tools collected so far by generateCustomTools
    patternIndex,   \* the pattern generateCustomTools is waiting on (1-based)
    serverConfig,   \* the configuration returned, or NoConfig
    synthesisLog,   \* the synthesis calls answered, in order of completion
    envPc,          \* generateEnvironmentVariables: ready, done
    envInput,       \* the integrations passed to generateEnvironmentVariables
    envResult,      \* the map it returned, as its entries in key order
    builderPc,      \* MCPServerGenerator: new, building, rejected, rendering
    config,         \* the configuration the caller holds
    validationErrors, \* the errors of the last generateValidatedServer
    arrays,         \* the arrays the configurations' fields refer to, by address
    objects,        \* every configuration object the generator returned, in order
    produced,       \* per object, the operation it came from and its value then
    generatorError, \* the message of the error MCPServerGenerator threw, or ""
    renderPc,       \* TemplateEngine.generateServer: idle, the step awaited, done
    renderConfig,   \* the configuration being rendered
    renderRun,      \* which of the two runs on that configuration this is
    renderIndex,    \* the position of the loop of the step awaited
    outputDirs,     \* per run, the directories ensured, in order
    outputTrees,    \* per run, the files written: path and content, in order
    clock,          \* the time
    fsLog,          \* per run, the fs calls made, in order, each with its outcome
    renderError,    \* the error TemplateEngine.generateServer rejected with, or ""
    matchPc,        \* the Matcher: ready, patterns, integrations
    matchKeywords,  \* the keywords passed to the Matcher
    matchActions,   \* the actions passed to findMatchingPatterns
    matchResult,    \* the ids of the catalog entries it returned, in order
    servePc,        \* the generated server: off, listening, dispatch, validate, body, catch, responded
    serveConfig,    \* the configuration the server was generated from
    serveRequest,   \* the CallTool request being handled: name and arguments
    serveTool,      \* the tool whose function the request was dispatched to, or 0
    toolTrace,      \* what the tool function did: validated, ran its body, how it ended
    serveResponse,  \* what the CallTool handler answered: a payload or an McpError
    deployPc,       \* a deployment adapter's deploy: idle, running, returned, threw
    deployAdapter,  \* which adapter: lambda or vercel
    deployNode,     \* the call deploy is awaiting (its place in the adapter's code)
    deployCalls,    \* the calls deploy made, in order, each with its outcome
    deployResult,   \* the DeploymentResult returned
    cliPc,          \* generateCommand: the prompt or call awaited, or how it ended
    cliOptions,     \* the options generateCommand was called with
    cliDir,         \* the output directory: absent, or what it holds
    cliLog          \* what generateCommand did to the directory and printed last

resolverVars == <<pc, description, analysis, analyzeOutcome, toolPatterns,
                  integrations, customTools, patternIndex, serverConfig, synthesisLog>>

envVars == <<envPc, envInput, envResult>>

builderVars == <<builderPc, config, validationErrors, arrays, objects, produced,
                 generatorError>>

renderVars == <<renderPc, renderConfig, renderRun, renderIndex, outputDirs,
                outputTrees, clock, fsLog, renderError>>

matcherVars == <<matchPc, matchKeywords, matchActions, matchResult>>

serveVars == <<servePc, serveConfig, serveRequest, serveTool, toolTrace, serveResponse>>

deployVars == <<deployPc, deployAdapter, deployNode, deployCalls, deployResult>>

cliVars == <<cliPc, cliOptions, cliDir, cliLog>>

\* the state of the parts around the generator
otherVars == <<matcherVars, serveVars, deployVars, cliVars>>

\* no Matcher call made
MatcherIdle ==
    /\ matchPc = "idle"
    /\ matchKeywords = <<>>
    /\ matchActions = <<>>
    /\ matchResult = <<>>

\* no generated server running
NoTrace == [validated |-> FALSE, bodyRan |-> FALSE, outcome |-> "none"]

NoResponse == [kind |-> "none", code |-> "", text |-> ""]

ServeIdle ==
    /\ servePc = "off"
    /\ serveConfig = <<>>
    /\ serveRequest = [name |-> "", args |-> ""]
    /\ serveTool = 0
    /\ toolTrace = NoTrace
    /\ serveResponse = NoResponse

\* no deployment made
NoDeployment == [success |-> FALSE, error |-> "", returned |-> FALSE]

DeployIdle ==
    /\ deployPc = "idle"
    /\ deployAdapter = ""
    /\ deployNode = 0
    /\ deployCalls = <<>>
    /\ deployResult = NoDeployment

\* generateCommand not called
CliIdle ==
    /\ cliPc = "idle"
    /\ cliOptions = <<>>
    /\ cliDir = "absent"
    /\ cliLog = <<>>

OtherIdle == MatcherIdle /\ ServeIdle /\ DeployIdle /\ CliIdle

-----------------------------------------------------------------------------
(* JavaScript strings *)

UpperChars == "ABCDEFGHIJKLMNOPQRSTUVWXYZ"
LowerChars == "abcdefghijklmnopqrstuvwxyz"
DigitChars == "0123456789"

Ch(s, i) == SubSeq(s, i, i)

Rest(s) == SubSeq(s, 2, Len(s))

IndexOf(c, s) ==
    IF \E i \in 1..Len(s) : Ch(s, i) = c
    THEN CHOOSE i \in 1..Len(s) : Ch(s, i) = c /\ \A j \in 1..(i - 1) : Ch(s, j) # c
    ELSE 0

IsUpper(c) == IndexOf(c, UpperChars) > 0
IsLower(c) == IndexOf(c, LowerChars) > 0
IsDigit(c) == IndexOf(c, DigitChars) > 0

\* the case mappings of the ASCII letters, as tables
LowerOf == [c \in {Ch(UpperChars, i) : i \in 1..Len(UpperChars)} |->
                Ch(LowerChars, IndexOf(c, UpperChars))]
UpperOf == [c \in {Ch(LowerChars, i) : i \in 1..Len(LowerChars)} |->
                Ch(UpperChars, IndexOf(c, LowerChars))]

LowerChar(c) == IF c \in DOMAIN LowerOf THEN LowerOf[c] ELSE c
UpperChar(c) == IF c \in DOMAIN UpperOf THEN UpperOf[c] ELSE c

RECURSIVE toLowerCase(_)
toLowerCase(s) ==
    IF s = "" THEN "" ELSE LowerChar(Ch(s, 1)) \o toLowerCase(Rest(s))

RECURSIVE toUpperCase(_)
toUpperCase(s) ==
    IF s = "" THEN "" ELSE UpperChar(Ch(s, 1)) \o toUpperCase(Rest(s))

\* String.prototype.includes
includes(s, t) ==
    \E i \in 1..(Len(s) + 1) :
        /\ i + Len(t) - 1 <= Len(s)
        /\ SubSeq(s, i, i + Len(t) - 1) = t

\* String.prototype.slice(0, n)
slice0(s, n) == SubSeq(s, 1, IF Len(s) < n THEN Len(s) ELSE n)

-----------------------------------------------------------------------------
(* Sequences as JavaScript arrays *)

Range(seq) == {seq[i] : i \in 1..Len(seq)}

\* Array.prototype.filter((x, index, self) => index === self.findIndex(y => key(y) === key(x)))
RECURSIVE FirstOccurrences(_, _)
FirstOccurrences(seq, seen) ==
    IF seq = <<>> THEN <<>>
    ELSE IF Head(seq) \in seen THEN FirstOccurrences(Tail(seq), seen)
    ELSE <<Head(seq)>> \o FirstOccurrences(Tail(seq), seen \cup {Head(seq)})

\* Array.prototype.slice(0, n)
Take(seq, n) == SubSeq(seq, 1, IF Len(seq) < n THEN Len(seq) ELSE n)

RECURSIVE Flatten(_)
Flatten(seqs) ==
    IF seqs = <<>> THEN <<>> ELSE Head(seqs) \o Flatten(Tail(seqs))

-----------------------------------------------------------------------------
(* The catalog *)

TOOL_PATTERNS == <<
    [id |-> "api-request", category |-> "api",
     actions |-> <<"get", "post", "put", "delete", "patch", "request">>,
     examples |-> <<"fetch data from API", "post to webhook", "REST API calls">>,
     dependencies |-> <<"axios", "zod">>],
    [id |-> "file-operations", category |-> "file",
     actions |-> <<"read", "write", "delete", "list", "copy", "move", "exists">>,
     examples |-> <<"read files", "write data to file", "manage directories", "file system operations">>,
     dependencies |-> <<"fs-extra", "path">>],
    [id |-> "database-query", category |-> "database",
     actions |-> <<"query", "insert", "update", "delete", "select">>,
     examples |-> <<"run SQL queries", "database operations", "data retrieval">>,
     dependencies |-> <<"pg", "mysql2", "sqlite3">>],
    [id |-> "notification-sender", category |-> "notification",
     actions |-> <<"send", "email", "slack", "webhook", "sms">>,
     examples |-> <<"send emails", "slack notifications", "SMS alerts", "webhook calls">>,
     dependencies |-> <<"nodemailer", "@slack/web-api", "twilio">>],
    [id |-> "data-processing", category |-> "processing",
     actions |-> <<"transform", "filter", "map", "reduce", "sort", "group">>,
     examples |-> <<"process arrays", "transform data", "filter results", "data manipulation">>,
     dependencies |-> <<"lodash", "moment", "csv-parser">>],
    [id |-> "auth-handler", category |-> "auth",
     actions |-> <<"login", "logout", "verify", "refresh", "oauth">>,
     examples |-> <<"user authentication", "JWT tokens", "OAuth flows", "login systems">>,
     dependencies |-> <<"jsonwebtoken", "bcrypt", "passport">> ] >>

Prop(k, d) == [key |-> k, description |-> d]

INTEGRATIONS == <<
    [id |-> "github", name |-> "github-api", displayName |-> "GitHub API",
     description |-> "Integrate with GitHub repositories, issues, and pull requests",
     dependencies |-> <<"@octokit/rest", "@octokit/auth-app">>,
     environmentVariables |-> <<"GITHUB_TOKEN", "GITHUB_APP_ID", "GITHUB_PRIVATE_KEY">>,
     configSchema |-> [hasProperties |-> TRUE, properties |-> <<
        Prop("token", "GitHub personal access token"),
        Prop("owner", "Repository owner"),
        Prop("repo", "Repository name") >>]],
    [id |-> "slack", name |-> "slack-api", displayName |-> "Slack API",
     description |-> "Send messages and interact with Slack workspaces",
     dependencies |-> <<"@slack/web-api", "@slack/bolt">>,
     environmentVariables |-> <<"SLACK_BOT_TOKEN", "SLACK_SIGNING_SECRET">>,
     configSchema |-> [hasProperties |-> TRUE, properties |-> <<
        Prop("token", "Slack bot token"),
        Prop("channel", "Default channel") >>]],
    [id |-> "postgresql", name |-> "postgresql-db", displayName |-> "PostgreSQL Database",
     description |-> "Connect to and query PostgreSQL databases",
     dependencies |-> <<"pg", "@types/pg">>,
     environmentVariables |-> <<"DATABASE_URL", "DB_HOST", "DB_PORT", "DB_NAME", "DB_USER", "DB_PASSWORD">>,
     configSchema |-> [hasProperties |-> TRUE, properties |-> <<
        Prop("host", "Database host"),
        Prop("port", "Database port"),
        Prop("database", "Database name"),
        Prop("user", "Database user"),
        Prop("password", "Database password"),
        Prop("ssl", "Use SSL connection") >>]],
    [id |-> "sendgrid", name |-> "sendgrid-email", displayName |-> "SendGrid Email",
     description |-> "Send emails using SendGrid service",
     dependencies |-> <<"@sendgrid/mail">>,
     environmentVariables |-> <<"SENDGRID_API_KEY">>,
     configSchema |-> [hasProperties |-> TRUE, properties |-> <<
        Prop("apiKey", "SendGrid API key"),
        Prop("fromEmail", "Default sender email"),
        Prop("fromName", "Default sender name") >>]],
    [id |-> "aws-s3", name |-> "aws-s3-storage", displayName |-> "AWS S3 Storage",
     description |-> "Upload, download, and manage files in AWS S3",
     dependencies |-> <<"@aws-sdk/client-s3", "@aws-sdk/s3-request-presigner">>,
     environmentVariables |-> <<"AWS_ACCESS_KEY_ID", "AWS_SECRET_ACCESS_KEY", "AWS_REGION", "AWS_S3_BUCKET">>,
     configSchema |-> [hasProperties |-> TRUE, properties |-> <<
        Prop("accessKeyId", "AWS access key ID"),
        Prop("secretAccessKey", "AWS secret access key"),
        Prop("region", "AWS region"),
        Prop("bucket", "S3 bucket name") >>]],
    [id |-> "discord", name |-> "discord-bot", displayName |-> "Discord Bot",
     description |-> "Create Discord bot interactions and send messages",
     dependencies |-> <<"discord.js">>,
     environmentVariables |-> <<"DISCORD_BOT_TOKEN", "DISCORD_CLIENT_ID">>,
     configSchema |-> [hasProperties |-> TRUE, properties |-> <<
        Prop("token", "Discord bot token"),
        Prop("clientId", "Discord application client ID"),
        Prop("guildId", "Discord server ID") >>]],
    [id |-> "twilio", name |-> "twilio-sms", displayName |-> "Twilio SMS",
     description |-> "Send SMS messages using Twilio",
     dependencies |-> <<"twilio">>,
     environmentVariables |-> <<"TWILIO_ACCOUNT_SID", "TWILIO_AUTH_TOKEN", "TWILIO_PHONE_NUMBER">>,
     configSchema |-> [hasProperties |-> TRUE, properties |-> <<
        Prop("accountSid", "Twilio Account SID"),
        Prop("authToken", "Twilio Auth Token"),
        Prop("phoneNumber", "Twilio phone number") >>]],
    [id |-> "openai", name |-> "openai-api", displayName |-> "OpenAI API",
     description |-> "Integrate with OpenAI GPT models and other AI services",
     dependencies |-> <<"openai">>,
     environmentVariables |-> <<"OPENAI_API_KEY">>,
     configSchema |-> [hasProperties |-> TRUE, properties |-> <<
        Prop("apiKey", "OpenAI API key"),
        Prop("model", "Default model"),
        Prop("organization", "OpenAI organization ID") >>]] >>

PatternIds == {TOOL_PATTERNS[i].id : i \in 1..Len(TOOL_PATTERNS)}
IntegrationIds == {INTEGRATIONS[i].id : i \in 1..Len(INTEGRATIONS)}

PatternById(id) == CHOOSE p \in Range(TOOL_PATTERNS) : p.id = id
IntegrationById(id) == CHOOSE g \in Range(INTEGRATIONS) : g.id = id

Ids(seq) == [i \in 1..Len(seq) |-> seq[i].id]

-----------------------------------------------------------------------------
(* AIGenerator: the resolver *)

MaxPatterns == 5
MaxIntegrations == 3

Analysis(summary, actions, services, categories, suggested, complexity) ==
    [isNull |-> FALSE, summary |-> summary, primaryActions |-> actions,
     services |-> services, complexity |-> complexity,
     toolCategories |-> categories, suggestedIntegrations |-> suggested]

\* JSON.parse of the text "null": valid JSON that is no object
NullAnalysis ==
    [isNull |-> TRUE, summary |-> "", primaryActions |-> <<>>, services |-> <<>>,
     complexity |-> "", toolCategories |-> <<>>, suggestedIntegrations |-> <<>>]

NoAnalysis == Analysis("", <<>>, <<>>, <<>>, <<>>, "")

\* createFallbackAnalysis with the description not lower-cased first
createFallbackAnalysis_CaseSensitive(d) ==
    LET lowerDesc == d
        github == includes(lowerDesc, "github")
        slack == includes(lowerDesc, "slack")
        database == includes(lowerDesc, "database") \/ includes(lowerDesc, "sql")
        file == includes(lowerDesc, "file") \/ includes(lowerDesc, "upload")
        email == includes(lowerDesc, "email")
        If(b, x) == IF b THEN <<x>> ELSE <<>>
        categories == If(github, "api") \o If(slack, "notification")
                        \o If(database, "database") \o If(file, "file")
                        \o If(email, "notification")
    IN  Analysis(slice0(d, 100) \o (IF Len(d) > 100 THEN "..." ELSE ""),
                 <<>>,
                 If(github, "GitHub") \o If(slack, "Slack"),
                 IF Len(categories) = 0 THEN <<"api">> ELSE categories,
                 If(github, "github") \o If(slack, "slack")
                    \o If(database, "postgresql") \o If(email, "sendgrid"),
                 "simple")

createFallbackAnalysis(d) ==
    LET lowerDesc == toLowerCase(d)
        github == includes(lowerDesc, "github")
        slack == includes(lowerDesc, "slack")
        database == includes(lowerDesc, "database") \/ includes(lowerDesc, "sql")
        file == includes(lowerDesc, "file") \/ includes(lowerDesc, "upload")
        email == includes(lowerDesc, "email")
        If(b, x) == IF b THEN <<x>> ELSE <<>>
        categories == If(github, "api") \o If(slack, "notification")
                        \o If(database, "database") \o If(file, "file")
                        \o If(email, "notification")
    IN  Analysis(slice0(d, 100) \o (IF Len(d) > 100 THEN "..." ELSE ""),
                 <<>>,
                 If(github, "GitHub") \o If(slack, "Slack"),
                 IF Len(categories) = 0 THEN <<"api">> ELSE categories,
                 If(github, "github") \o If(slack, "slack")
                    \o If(database, "postgresql") \o If(email, "sendgrid"),
                 "simple")

\* TOOL_PATTERNS.filter(pattern => pattern.category === category), as ids
PatternsOfCategory(category) ==
    Ids(SelectSeq(TOOL_PATTERNS, LAMBDA p : p.category = category))

\* TOOL_PATTERNS.filter(pattern => pattern.actions.some(...)), as ids
PatternsOfAction(action) ==
    Ids(SelectSeq(TOOL_PATTERNS, LAMBDA p :
        \E i \in 1..Len(p.actions) :
            \/ includes(toLowerCase(p.actions[i]), toLowerCase(action))
            \/ includes(toLowerCase(action), toLowerCase(p.actions[i]))))

\* selectToolPatterns with the final slice(0, 5) forgotten
selectToolPatterns_Uncapped(a) ==
    LET selectedPatterns ==
            Flatten([i \in 1..Len(a.toolCategories) |-> PatternsOfCategory(a.toolCategories[i])])
            \o Flatten([i \in 1..Len(a.primaryActions) |-> PatternsOfAction(a.primaryActions[i])])
        uniquePatterns == FirstOccurrences(selectedPatterns, {})
    IN  IF Len(uniquePatterns) = 0 THEN <<TOOL_PATTERNS[1].id>> ELSE uniquePatterns

\* selectToolPatterns without the default to the first pattern
selectToolPatterns_NoDefault(a) ==
    LET selectedPatterns ==
            Flatten([i \in 1..Len(a.toolCategories) |-> PatternsOfCategory(a.toolCategories[i])])
            \o Flatten([i \in 1..Len(a.primaryActions) |-> PatternsOfAction(a.primaryActions[i])])
    IN  Take(FirstOccurrences(selectedPatterns, {}), MaxPatterns)

selectToolPatterns(a) ==
    LET categories == a.toolCategories
        actions == a.primaryActions
        selectedPatterns ==
            Flatten([i \in 1..Len(categories) |-> PatternsOfCategory(categories[i])])
            \o Flatten([i \in 1..Len(actions) |-> PatternsOfAction(actions[i])])
        uniquePatterns == FirstOccurrences(selectedPatterns, {})
        ensured == IF Len(uniquePatterns) = 0 THEN <<TOOL_PATTERNS[1].id>>
                   ELSE uniquePatterns
    IN  Take(ensured, MaxPatterns)

\* The module './integrations' exports no findIntegrations: the imported binding
\* is undefined and the call throws a TypeError.  (The function it does export,
\* findMatchingIntegrations, takes an array and calls keywords.map, which a
\* string does not have: called with one service it throws a TypeError too.)
findIntegrations(service) == [threw |-> TRUE, value |-> <<>>]

\* INTEGRATIONS.find(i => i.id === integrationId), pushed when found
SuggestedLookup(integrationId) ==
    IF integrationId \in IntegrationIds THEN <<integrationId>> ELSE <<>>

selectIntegrations(a) ==
    LET suggested == a.suggestedIntegrations
        services == a.services
        byId == Flatten([i \in 1..Len(suggested) |-> SuggestedLookup(suggested[i])])
        found == [i \in 1..Len(services) |-> findIntegrations(services[i])]
        threw == \E i \in 1..Len(services) : found[i].threw
        selectedIntegrations == byId \o Flatten([i \in 1..Len(services) |-> found[i].value])
        uniqueIntegrations == FirstOccurrences(selectedIntegrations, {})
    IN  IF threw THEN [threw |-> TRUE, value |-> <<>>]
        ELSE [threw |-> FALSE, value |-> Take(uniqueIntegrations, MaxIntegrations)]

CoreDependencies == <<"@modelcontextprotocol/sdk", "zod">>

\* calculateDependencies with the loop over the integrations forgotten
calculateDependencies_PatternsOnly(patterns, integs) ==
    FirstOccurrences(
        CoreDependencies
        \o Flatten([i \in 1..Len(patterns) |-> PatternById(patterns[i]).dependencies]),
        {})

\* a Set keeps each entry once, in insertion order
calculateDependencies(patterns, integs) ==
    FirstOccurrences(
        CoreDependencies
        \o Flatten([i \in 1..Len(patterns) |-> PatternById(patterns[i]).dependencies])
        \o Flatten([i \in 1..Len(integs) |-> IntegrationById(integs[i]).dependencies]),
        {})

\* envVars[envKey] = envValue on an object: a new key is appended, an existing
\* key keeps its place and takes the new value
SetEntry(entries, k, v) ==
    IF \E i \in 1..Len(entries) : entries[i].key = k
    THEN [i \in 1..Len(entries) |->
            IF entries[i].key = k THEN [key |-> k, value |-> v] ELSE entries[i]]
    ELSE Append(entries, [key |-> k, value |-> v])

RECURSIVE SetAll(_, _)
SetAll(entries, assignments) ==
    IF assignments = <<>> THEN entries
    ELSE SetAll(SetEntry(entries, Head(assignments).key, Head(assignments).value),
                Tail(assignments))

\* envKey with the property name left in its own case
envKey_PropertyAsIs(integration, prop) ==
    toUpperCase(integration.id) \o "_" \o prop.key

envKey(integration, prop) ==
    toUpperCase(integration.id) \o "_" \o toUpperCase(prop.key)

\* (prop as any).description || `${integration.displayName} ${key}`
envValue(integration, prop) ==
    IF prop.description # "" THEN prop.description
    ELSE integration.displayName \o " " \o prop.key

\* the assignments of one integration, in Object.entries order
EnvAssignments(integration) ==
    LET props == integration.configSchema.properties
    IN  IF integration.configSchema.hasProperties
        THEN [j \in 1..Len(props) |->
                [key |-> envKey(integration, props[j]),
                 value |-> envValue(integration, props[j])]]
        ELSE <<>>

generateEnvironmentVariables(integs) ==
    SetAll(<<>>, Flatten([i \in 1..Len(integs) |-> EnvAssignments(integs[i])]))

\* String.prototype.split(' ')
RECURSIVE SplitAcc(_, _, _)
SplitAcc(s, cur, acc) ==
    IF s = "" THEN Append(acc, cur)
    ELSE IF Ch(s, 1) = " " THEN SplitAcc(Rest(s), "", Append(acc, cur))
    ELSE SplitAcc(Rest(s), cur \o Ch(s, 1), acc)

split(s) == SplitAcc(s, "", <<>>)

\* Array.prototype.join
RECURSIVE join(_, _)
join(words, sep) ==
    IF words = <<>> THEN ""
    ELSE IF Len(words) = 1 THEN words[1]
    ELSE words[1] \o sep \o join(Tail(words), sep)

\* replace(/[^a-z0-9-]/g, '')
RECURSIVE StripNonSlug(_)
StripNonSlug(s) ==
    IF s = "" THEN ""
    ELSE (IF IsLower(Ch(s, 1)) \/ IsDigit(Ch(s, 1)) \/ Ch(s, 1) = "-" THEN Ch(s, 1) ELSE "")
         \o StripNonSlug(Rest(s))

\* replace(/-+/g, '-')
RECURSIVE CollapseHyphens(_)
CollapseHyphens(s) ==
    IF s = "" THEN ""
    ELSE IF Ch(s, 1) = "-" /\ Len(s) > 1 /\ Ch(s, 2) = "-" THEN CollapseHyphens(Rest(s))
    ELSE Ch(s, 1) \o CollapseHyphens(Rest(s))

\* replace(/^-|-$/g, '')
TrimHyphen(s) ==
    LET front == IF s # "" /\ Ch(s, 1) = "-" THEN Rest(s) ELSE s
    IN  IF front # "" /\ Ch(front, Len(front)) = "-"
        THEN SubSeq(front, 1, Len(front) - 1) ELSE front

\* generateServerName with the slice(0, 3) forgotten
generateServerName_AllWords(a) ==
    LET summary == IF a.summary = "" THEN "MCP Server" ELSE a.summary
        words == split(summary)
    IN  TrimHyphen(CollapseHyphens(StripNonSlug(toLowerCase(join(words, "-")))))
        \o "-mcp-server"

generateServerName(a) ==
    LET summary == IF a.summary = "" THEN "MCP Server" ELSE a.summary
        words == Take(split(summary), 3)
    IN  TrimHyphen(CollapseHyphens(StripNonSlug(toLowerCase(join(words, "-")))))
        \o "-mcp-server"

\* the GeneratedTool built from the synthesis answer toolData
GeneratedTool(patternId, name) ==
    [patternId |-> patternId, name |-> name,
     dependencies |-> PatternById(patternId).dependencies]

NoConfig ==
    [name |-> "", description |-> "", patterns |-> <<>>, integrations |-> <<>>,
     customTools |-> <<>>, dependencies |-> <<>>, environmentVariables |-> <<>>]

\* generateServerConfig, step 5
BuildServerConfig(d, a, patterns, integs, tools) ==
    [name |-> generateServerName(a),
     description |-> IF a.summary # "" THEN a.summary ELSE d,
     patterns |-> patterns,
     integrations |-> integs,
     customTools |-> tools,
     dependencies |-> calculateDependencies(patterns, integs),
     environmentVariables |->
        generateEnvironmentVariables([i \in 1..Len(integs) |-> IntegrationById(integs[i])])]

-----------------------------------------------------------------------------
(* The inputs of the resolver *)

Descriptions ==
    { "send Slack notifications when a GitHub issue is created",
      "query the SQL database",
      "upload a file and email it",
      "convert temperatures",
      "EMAIL me",
      "" }

\* what the analysis call answers when it answers with valid JSON
AnalysisResponses ==
    { Analysis("Do everything at once",
               <<>>, <<>>,
               <<"api", "file", "database", "notification", "processing", "auth">>,
               <<"github", "slack", "postgresql", "sendgrid", "aws-s3">>, "complex"),
      Analysis("Notify -- the team!",
               <<"Send">>, <<>>,
               <<"notification", "api", "notification">>,
               <<"slack", "no-such-service", "slack">>, "moderate"),
      Analysis("", <<>>, <<>>, <<>>, <<>>, "simple"),
      Analysis("Juggle three balls",
               <<"juggle">>, <<>>, <<"circus">>, <<>>, "simple"),
      Analysis("Remove records",
               <<"delete">>, <<>>, <<"bogus">>, <<"aws-s3", "twilio", "openai">>, "moderate"),
      Analysis("Track GitHub issues",
               <<"get">>, <<"GitHub">>, <<"api">>, <<"github">>, "simple"),
      NullAnalysis }

AnalyzeFailures == {"throws", "no_content", "invalid_json"}

\* the names the synthesis call gives its tools
ToolNames == {"get_weather", "Get_Weather"}

-----------------------------------------------------------------------------
(* generateServerConfig, one action per awaited call *)

ResolverInit ==
    /\ pc = "idle"
    /\ description = ""
    /\ analysis = NoAnalysis
    /\ analyzeOutcome = "none"
    /\ toolPatterns = <<>>
    /\ integrations = <<>>
    /\ customTools = <<>>
    /\ patternIndex = 0
    /\ serverConfig = NoConfig
    /\ synthesisLog = <<>>

\* generateServerConfig(d) is called and awaits the analysis call
Call(d) ==
    /\ pc = "idle"
    /\ pc' = "analyze"
    /\ description' = d
    /\ UNCHANGED <<analysis, analyzeOutcome, toolPatterns, integrations,
                   customTools, patternIndex, serverConfig, synthesisLog>>
    /\ UNCHANGED <<envVars, builderVars, renderVars, otherVars>>

\* steps 2 and 3 and the start of step 4, run on the analysis a; an exception
\* reaches generateServerConfig's catch, which throws 'AI Generation failed'
Select(a) ==
    IF a.isNull
    THEN /\ pc' = "threw"
         /\ UNCHANGED <<toolPatterns, integrations, customTools, patternIndex>>
    ELSE LET selected == selectIntegrations(a)
         IN  /\ toolPatterns' = selectToolPatterns(a)
             /\ IF selected.threw
                THEN /\ pc' = "threw"
                     /\ UNCHANGED <<integrations, customTools, patternIndex>>
                ELSE /\ pc' = "synthesize"
                     /\ integrations' = selected.value
                     /\ customTools' = <<>>
                     /\ patternIndex' = 1

\* the analysis call answers with JSON text that parses to a
AnalyzeReturns(a) ==
    /\ pc = "analyze"
    /\ analysis' = a
    /\ analyzeOutcome' = "ok"
    /\ Select(a)
    /\ UNCHANGED <<description, serverConfig, synthesisLog>>
    /\ UNCHANGED <<envVars, builderVars, renderVars, otherVars>>

\* the analysis call throws, answers without content, or answers with text
\* JSON.parse rejects: analyzeRequiredTools' catch returns the fallback
AnalyzeFails(kind) ==
    /\ pc = "analyze"
    /\ analysis' = createFallbackAnalysis(description)
    /\ analyzeOutcome' = kind
    /\ Select(analysis')
    /\ UNCHANGED <<description, serverConfig, synthesisLog>>
    /\ UNCHANGED <<envVars, builderVars, renderVars, otherVars>>

\* what generateCustomTool returns when the call fails: null
NullTool == [patternId |-> "", name |-> "", dependencies |-> <<>>]

\* customTools.push(customTool) without the test if (customTool)
CollectTool_Unchecked(tools, customTool) == Append(tools, customTool)

\* if (customTool) { customTools.push(customTool); }
CollectTool(tools, customTool) ==
    IF customTool = NullTool THEN tools ELSE Append(tools, customTool)

\* the synthesis calls awaited with all of them started at once
InFlight_Concurrent ==
    {i \in 1..Len(toolPatterns) : \A k \in 1..Len(synthesisLog) : synthesisLog[k].index # i}

\* the synthesis calls awaited: the loop awaits each call before the next one
InFlight == {patternIndex}

\* generateCustomTools moves to the next pattern, or returns and
\* generateServerConfig assembles and returns the configuration
Advance(tools, i, outcome) ==
    /\ customTools' = tools
    /\ synthesisLog' = Append(synthesisLog, [index |-> i, outcome |-> outcome])
    /\ IF patternIndex < Len(toolPatterns)
       THEN /\ patternIndex' = patternIndex + 1
            /\ UNCHANGED <<pc, serverConfig>>
       ELSE /\ pc' = "returned"
            /\ serverConfig' =
                 BuildServerConfig(description, analysis, toolPatterns, integrations, tools)
            /\ UNCHANGED patternIndex
    /\ UNCHANGED <<description, analysis, analyzeOutcome, toolPatterns, integrations>>

\* a synthesis call awaited answers with a tool named name
SynthesisReturns(name) ==
    /\ pc = "synthesize"
    /\ patternIndex \in 1..Len(toolPatterns)
    /\ \E i \in InFlight :
         Advance(CollectTool(customTools, GeneratedTool(toolPatterns[i], name)), i, "ok")
    /\ UNCHANGED <<envVars, builderVars, renderVars, otherVars>>

\* a synthesis call awaited throws, answers without content or with
\* unparseable text: generateCustomTool returns null and the pattern is skipped
SynthesisFails(kind) ==
    /\ pc = "synthesize"
    /\ patternIndex \in 1..Len(toolPatterns)
    /\ \E i \in InFlight : Advance(CollectTool(customTools, NullTool), i, "failed")
    /\ UNCHANGED <<envVars, builderVars, renderVars, otherVars>>

-----------------------------------------------------------------------------
(* Properties of the resolver *)

ScenarioA == "send Slack notifications when a GitHub issue is created"

NoDuplicates(seq) == \A i, j \in 1..Len(seq) : seq[i] = seq[j] => i = j

\* C1: generateServerConfig never throws when the analysis call failed (threw,
\* answered without content, or answered with invalid JSON): the fallback
\* analysis is used and a configuration is returned.
C1_AnalyzeFailureNeverRaises ==
    analyzeOutcome \in AnalyzeFailures =>
        /\ analysis = createFallbackAnalysis(description)
        /\ pc # "threw"

\* C2: a returned configuration has no two tools whose names are equal ignoring
\* case and no two integrations with the same id.
C2_NoDuplicateNames ==
    pc = "returned" =>
        /\ NoDuplicates([i \in 1..Len(serverConfig.customTools) |->
                            toLowerCase(serverConfig.customTools[i].name)])
        /\ NoDuplicates(serverConfig.integrations)

\* C3: the dependencies of a returned configuration are duplicate-free and are
\* exactly the core pair, the dependencies of every selected pattern and the
\* dependencies of every selected integration.
C3_DependenciesExact ==
    pc = "returned" =>
        /\ NoDuplicates(serverConfig.dependencies)
        /\ Range(serverConfig.dependencies) =
             {"@modelcontextprotocol/sdk", "zod"}
             \cup UNION {Range(p.dependencies) :
                            p \in {q \in Range(TOOL_PATTERNS) : q.id \in Range(serverConfig.patterns)}}
             \cup UNION {Range(g.dependencies) :
                            g \in {h \in Range(INTEGRATIONS) : h.id \in Range(serverConfig.integrations)}}

\* a configuration was returned whose patterns and integrations both bring
\* dependencies, one of them ('zod') already in the core pair
C3_Witness ==
    /\ pc = "returned"
    /\ "api-request" \in Range(serverConfig.patterns)
    /\ "slack" \in Range(serverConfig.integrations)
    /\ "@slack/bolt" \in Range(serverConfig.dependencies)
    /\ "axios" \in Range(serverConfig.dependencies)

\* C4: a resolved configuration has at most 5 patterns, at most 5 tools and at
\* most 3 integrations, also when more of them matched.
C4_Caps ==
    /\ Len(toolPatterns) <= 5
    /\ Len(integrations) <= 3
    /\ pc = "returned" =>
        /\ Len(serverConfig.patterns) <= 5
        /\ Len(serverConfig.customTools) <= 5
        /\ Len(serverConfig.integrations) <= 3

\* six patterns and five integrations matched, and the configuration returned
\* holds five tools and three integrations
C4_Witness ==
    /\ pc = "returned"
    /\ Cardinality(Range(analysis.toolCategories)) = 6
    /\ Cardinality(Range(analysis.suggestedIntegrations) \cap IntegrationIds) = 5
    /\ Len(serverConfig.customTools) = 5
    /\ Len(serverConfig.integrations) = 3

\* C9: for scenario A with the analysis call failing, the fallback selects the
\* integrations {github, slack} and the categories {api, notification}, and
\* generateServerConfig returns a configuration with at least two integrations
\* and a tool of the notification pattern.
C9_ScenarioA ==
    (description = ScenarioA /\ analyzeOutcome \in AnalyzeFailures) =>
        /\ Range(analysis.suggestedIntegrations) = {"github", "slack"}
        /\ Range(analysis.toolCategories) = {"api", "notification"}
        /\ pc # "threw"
        /\ pc = "returned" =>
            /\ Len(serverConfig.integrations) >= 2
            /\ \E i \in 1..Len(serverConfig.customTools) :
                PatternById(serverConfig.customTools[i].patternId).category = "notification"

-----------------------------------------------------------------------------
(* generateEnvironmentVariables on its own *)

MaxEnvIntegrations == 2

Integration(id, displayName, hasProperties, properties) ==
    [id |-> id, name |-> id, displayName |-> displayName, dependencies |-> <<>>,
     environmentVariables |-> <<>>,
     configSchema |-> [hasProperties |-> hasProperties, properties |-> properties]]

\* one integration with the properties {apiKey, fromEmail} under the id sendgrid
ScenarioCIntegration ==
    Integration("sendgrid", "SendGrid", TRUE,
                <<Prop("apiKey", "The API key"), Prop("fromEmail", "")>>)

EnvIntegrationPool ==
    Range(INTEGRATIONS)
    \cup { ScenarioCIntegration,
           Integration("crm", "CRM", FALSE, <<>>),
           Integration("Crm", "Other CRM", TRUE,
                       <<Prop("apiKey", "first key"), Prop("APIKEY", "second key")>>) }

EnvInputs ==
    UNION {[1..n -> EnvIntegrationPool] : n \in 0..MaxEnvIntegrations}

EnvIdle ==
    /\ envPc = "idle"
    /\ envInput = <<>>
    /\ envResult = <<>>

EnvInit ==
    /\ envPc = "ready"
    /\ envInput \in EnvInputs
    /\ envResult = <<>>

ApplyGenerateEnvironmentVariables ==
    /\ envPc = "ready"
    /\ envResult' = generateEnvironmentVariables(envInput)
    /\ envPc' = "done"
    /\ UNCHANGED envInput
    /\ UNCHANGED <<resolverVars, builderVars, renderVars, otherVars>>

-----------------------------------------------------------------------------
(* MCPServerGenerator: the configuration builder *)

MaxConfigTools == 2
MaxConfigIntegrations == 2

IsSpace(c) == c = " " \/ c = "\t"

\* String.prototype.trim
RECURSIVE trimStart(_)
trimStart(s) == IF s # "" /\ IsSpace(Ch(s, 1)) THEN trimStart(Rest(s)) ELSE s

RECURSIVE trimEnd(_)
trimEnd(s) ==
    IF s # "" /\ IsSpace(Ch(s, Len(s))) THEN trimEnd(SubSeq(s, 1, Len(s) - 1)) ELSE s

trim(s) == trimEnd(trimStart(s))

\* replace(/[^a-zA-Z0-9\s-_]/g, ''): letters, digits, white space, '-' and '_' stay
RECURSIVE StripSpecial(_)
StripSpecial(s) ==
    IF s = "" THEN ""
    ELSE (IF \/ IsLower(Ch(s, 1)) \/ IsUpper(Ch(s, 1)) \/ IsDigit(Ch(s, 1))
             \/ IsSpace(Ch(s, 1)) \/ Ch(s, 1) = "-" \/ Ch(s, 1) = "_"
          THEN Ch(s, 1) ELSE "")
         \o StripSpecial(Rest(s))

\* replace(/\s+/g, '-')
RECURSIVE SpacesToHyphen(_)
SpacesToHyphen(s) ==
    IF s = "" THEN ""
    ELSE IF IsSpace(Ch(s, 1))
         THEN "-" \o SpacesToHyphen(trimStart(s))
         ELSE Ch(s, 1) \o SpacesToHyphen(Rest(s))

sanitizeName(name) == toLowerCase(SpacesToHyphen(StripSpecial(trim(name))))

CoreTool(name, toolDescription, hasInputSchema) ==
    [name |-> name, description |-> toolDescription, hasInputSchema |-> hasInputSchema]

CoreIntegration(name, integrationDescription, envVarNames) ==
    [name |-> name, description |-> integrationDescription, envVars |-> envVarNames]

createBasicConfig(name, serverDescription) ==
    [name |-> sanitizeName(name), description |-> serverDescription,
     dependencies |-> <<"@modelcontextprotocol/sdk", "zod">>,
     customTools |-> <<>>, integrations |-> <<>>]

addTool(c, tool) == [c EXCEPT !.customTools = Append(@, tool)]

addIntegration(c, integration) == [c EXCEPT !.integrations = Append(@, integration)]

\* [...new Set([...config.dependencies, dependency])]
addDependency(c, dependency) ==
    [c EXCEPT !.dependencies = FirstOccurrences(Append(@, dependency), {})]

\* `${index}` for the indexes of a short list
IndexText(n) == Ch(DigitChars, n + 1)

\* the errors of the forEach over the tools
ToolErrors(c) ==
    Flatten([i \in 1..Len(c.customTools) |->
        LET tool == c.customTools[i]
        IN  (IF trim(tool.name) = ""
             THEN <<"Tool at index " \o IndexText(i - 1) \o " is missing a name">> ELSE <<>>)
            \o (IF trim(tool.description) = ""
                THEN <<"Tool \"" \o tool.name \o "\" is missing a description">> ELSE <<>>)
            \o (IF ~tool.hasInputSchema
                THEN <<"Tool \"" \o tool.name \o "\" is missing input schema">> ELSE <<>>)])

\* the check for duplicate names, which runs inside the forEach over the integrations
DuplicateErrors(c) ==
    LET toolNames == [i \in 1..Len(c.customTools) |-> toLowerCase(c.customTools[i].name)]
        integrationNames ==
            [i \in 1..Len(c.integrations) |-> toLowerCase(c.integrations[i].name)]
    IN  (IF Len(toolNames) # Cardinality(Range(toolNames))
         THEN <<"Duplicate tool names detected">> ELSE <<>>)
        \o (IF Len(integrationNames) # Cardinality(Range(integrationNames))
            THEN <<"Duplicate integration names detected">> ELSE <<>>)

\* the errors of the forEach over the integrations
IntegrationErrors(c) ==
    Flatten([i \in 1..Len(c.integrations) |->
        LET integration == c.integrations[i]
        IN  (IF trim(integration.name) = ""
             THEN <<"Integration at index " \o IndexText(i - 1) \o " is missing a name">>
             ELSE <<>>)
            \o (IF trim(integration.description) = ""
                THEN <<"Integration \"" \o integration.name \o "\" is missing a description">>
                ELSE <<>>)
            \o DuplicateErrors(c)])

validateConfig(c) ==
    (IF trim(c.name) = "" THEN <<"Server name is required">> ELSE <<>>)
    \o (IF trim(c.description) = "" THEN <<"Server description is required">> ELSE <<>>)
    \o ToolErrors(c)
    \o IntegrationErrors(c)

(* The inputs of the builder *)

ServerInputs ==
    { [name |-> "Weather Server!", description |-> "Looks up the weather"],
      [name |-> "  ", description |-> ""] }

BuilderTools ==
    { CoreTool("Get Weather", "Weather by city", TRUE),
      CoreTool("get-weather", "Weather by city", TRUE),
      CoreTool("send_alert", "", TRUE),
      CoreTool("", "Nameless", FALSE) }

BuilderIntegrations ==
    { CoreIntegration("github-api", "GitHub", <<"GITHUB_TOKEN">>),
      CoreIntegration("GitHub-API", "GitHub again", <<>>),
      CoreIntegration("slack", "", <<>>) }

BuilderDependencies == {"zod", "axios"}

EmptyConfig ==
    [name |-> "", description |-> "", dependencies |-> <<>>,
     customTools |-> <<>>, integrations |-> <<>>]

(* The configurations as JavaScript objects: an object holds its name and
   description and refers to three arrays; the spread { ...config, f: [...] }
   makes a new object that shares every array but the one it replaces. *)

MaxConfigs == 4

ConfigObject(name, serverDescription, dependencies, tools, integs) ==
    [name |-> name, description |-> serverDescription, dependencies |-> dependencies,
     customTools |-> tools, integrations |-> integs]

\* the value of a configuration object
Deref(arrs, obj) ==
    [name |-> obj.name, description |-> obj.description,
     dependencies |-> arrs[obj.dependencies],
     customTools |-> arrs[obj.customTools],
     integrations |-> arrs[obj.integrations]]

\* the object literal of createBasicConfig, with its three array literals
createBasicConfigObject(arrs, name, serverDescription) ==
    [arrays |-> arrs \o << <<"@modelcontextprotocol/sdk", "zod">>, <<>>, <<>> >>,
     object |-> ConfigObject(sanitizeName(name), serverDescription,
                             Len(arrs) + 1, Len(arrs) + 2, Len(arrs) + 3)]

\* config.customTools.push(tool); return config
addToolObject_InPlace(arrs, obj, tool) ==
    [arrays |-> [arrs EXCEPT ![obj.customTools] = Append(@, tool)],
     object |-> obj]

\* { ...config, customTools: [...config.customTools, tool] }
addToolObject(arrs, obj, tool) ==
    [arrays |-> Append(arrs, Append(arrs[obj.customTools], tool)),
     object |-> [obj EXCEPT !.customTools = Len(arrs) + 1]]

\* { ...config, integrations: [...config.integrations, integration] }
addIntegrationObject(arrs, obj, integration) ==
    [arrays |-> Append(arrs, Append(arrs[obj.integrations], integration)),
     object |-> [obj EXCEPT !.integrations = Len(arrs) + 1]]

\* { ...config, dependencies: [...new Set([...config.dependencies, dependency])] }
addDependencyObject(arrs, obj, dependency) ==
    [arrays |-> Append(arrs, FirstOccurrences(Append(arrs[obj.dependencies], dependency), {})),
     object |-> [obj EXCEPT !.dependencies = Len(arrs) + 1]]

\* the object the caller holds: the last one returned
Held == objects[Len(objects)]

\* the generator returned an object: it is recorded with its value at that time
Returned(operation, result) ==
    /\ arrays' = result.arrays
    /\ objects' = Append(objects, result.object)
    /\ produced' = Append(produced, [operation |-> operation,
                                     value |-> Deref(result.arrays, result.object)])

BuilderInit ==
    /\ builderPc = "new"
    /\ config = EmptyConfig
    /\ validationErrors = <<>>
    /\ arrays = <<>>
    /\ objects = <<>>
    /\ produced = <<>>
    /\ generatorError = ""

CreateBasicConfig(server) ==
    /\ builderPc = "new"
    /\ config' = createBasicConfig(server.name, server.description)
    /\ Returned("createBasicConfig",
                createBasicConfigObject(arrays, server.name, server.description))
    /\ builderPc' = "building"
    /\ UNCHANGED <<validationErrors, generatorError>>
    /\ UNCHANGED <<resolverVars, envVars, renderVars, otherVars>>

\* config = generator.addTool(config, tool)
AddTool(tool) ==
    /\ builderPc = "building"
    /\ Len(objects) < MaxConfigs
    /\ Len(config.customTools) < MaxConfigTools
    /\ config' = addTool(config, tool)
    /\ Returned("addTool", addToolObject(arrays, Held, tool))
    /\ UNCHANGED <<builderPc, validationErrors, generatorError>>
    /\ UNCHANGED <<resolverVars, envVars, renderVars, otherVars>>

\* config = generator.addIntegration(config, integration)
AddIntegration(integration) ==
    /\ builderPc = "building"
    /\ Len(objects) < MaxConfigs
    /\ Len(config.integrations) < MaxConfigIntegrations
    /\ config' = addIntegration(config, integration)
    /\ Returned("addIntegration", addIntegrationObject(arrays, Held, integration))
    /\ UNCHANGED <<builderPc, validationErrors, generatorError>>
    /\ UNCHANGED <<resolverVars, envVars, renderVars, otherVars>>

\* config = generator.addDependency(config, dep)
AddDependency(dependency) ==
    /\ builderPc = "building"
    /\ Len(objects) < MaxConfigs
    /\ config' = addDependency(config, dependency)
    /\ Returned("addDependency", addDependencyObject(arrays, Held, dependency))
    /\ UNCHANGED <<builderPc, validationErrors, generatorError>>
    /\ UNCHANGED <<resolverVars, envVars, renderVars, otherVars>>

\* `Configuration validation failed:\n${errors.join('\n')}` with the first
\* error only
validationMessage_FirstOnly(errors) ==
    "Configuration validation failed:\n" \o errors[1]

\* `Configuration validation failed:\n${errors.join('\n')}`
validationMessage(errors) ==
    "Configuration validation failed:\n" \o join(errors, "\n")

\* generateValidatedServer: throws with the errors, or goes on to generateServer
GenerateValidatedServer ==
    /\ builderPc = "building"
    /\ validationErrors' = validateConfig(config)
    /\ builderPc' = IF Len(validationErrors') > 0 THEN "rejected" ELSE "rendering"
    /\ generatorError' = IF Len(validationErrors') > 0
                         THEN validationMessage(validationErrors') ELSE ""
    /\ UNCHANGED <<config, arrays, objects, produced>>
    /\ UNCHANGED <<resolverVars, envVars, renderVars, otherVars>>

-----------------------------------------------------------------------------
(* TemplateEngine: the naming transforms and Handlebars' escaping *)

\* the characters of the regular expressions' class [-_\s]
IsSeparator(c) == c = "-" \/ c = "_" \/ IsSpace(c)

RECURSIVE DropSeparators(_)
DropSeparators(s) ==
    IF s # "" /\ IsSeparator(Ch(s, 1)) THEN DropSeparators(Rest(s)) ELSE s

\* replace(/[-_\s]+(.)?/g, (_, c) => (c ? c.toUpperCase() : ''))
RECURSIVE CapitalizeAfterSeparators(_)
CapitalizeAfterSeparators(s) ==
    IF s = "" THEN ""
    ELSE IF IsSeparator(Ch(s, 1))
         THEN LET after == DropSeparators(s)
              IN  IF after = "" THEN ""
                  ELSE UpperChar(Ch(after, 1)) \o CapitalizeAfterSeparators(Rest(after))
         ELSE Ch(s, 1) \o CapitalizeAfterSeparators(Rest(s))

camelCase(str) ==
    LET joined == CapitalizeAfterSeparators(str)
    IN  IF joined # "" /\ IsUpper(Ch(joined, 1))
        THEN LowerChar(Ch(joined, 1)) \o Rest(joined) ELSE joined

pascalCase(str) ==
    LET joined == CapitalizeAfterSeparators(str)
    IN  IF joined # "" /\ IsLower(Ch(joined, 1))
        THEN UpperChar(Ch(joined, 1)) \o Rest(joined) ELSE joined

\* replace(/([a-z])([A-Z])/g, '$1' + sep + '$2')
RECURSIVE SplitHumps(_, _)
SplitHumps(s, sep) ==
    IF Len(s) < 2 THEN s
    ELSE IF IsLower(Ch(s, 1)) /\ IsUpper(Ch(s, 2))
         THEN Ch(s, 1) \o sep \o SplitHumps(Rest(s), sep)
         ELSE Ch(s, 1) \o SplitHumps(Rest(s), sep)

RECURSIVE DropSpacesUnderscores(_)
DropSpacesUnderscores(s) ==
    IF s # "" /\ (IsSpace(Ch(s, 1)) \/ Ch(s, 1) = "_")
    THEN DropSpacesUnderscores(Rest(s)) ELSE s

\* replace(/[\s_]+/g, '-')
RECURSIVE SpacesUnderscoresToHyphen(_)
SpacesUnderscoresToHyphen(s) ==
    IF s = "" THEN ""
    ELSE IF IsSpace(Ch(s, 1)) \/ Ch(s, 1) = "_"
         THEN "-" \o SpacesUnderscoresToHyphen(DropSpacesUnderscores(s))
         ELSE Ch(s, 1) \o SpacesUnderscoresToHyphen(Rest(s))

RECURSIVE DropSpacesHyphens(_)
DropSpacesHyphens(s) ==
    IF s # "" /\ (IsSpace(Ch(s, 1)) \/ Ch(s, 1) = "-")
    THEN DropSpacesHyphens(Rest(s)) ELSE s

\* replace(/[-\s]+/g, '_')
RECURSIVE SpacesHyphensToUnderscore(_)
SpacesHyphensToUnderscore(s) ==
    IF s = "" THEN ""
    ELSE IF IsSpace(Ch(s, 1)) \/ Ch(s, 1) = "-"
         THEN "_" \o SpacesHyphensToUnderscore(DropSpacesHyphens(s))
         ELSE Ch(s, 1) \o SpacesHyphensToUnderscore(Rest(s))

kebabCase(str) == toLowerCase(SpacesUnderscoresToHyphen(SplitHumps(str, "-")))

constantCase(str) == toUpperCase(SpacesHyphensToUnderscore(SplitHumps(str, "_")))

\* what Handlebars writes for {{expression}}: the value with & < > " ' =
\* replaced by HTML entities ({{{expression}}} writes the value as it is); the
\* backquote, escaped too, is not a character of this model's names
EscapeChar(c) ==
    CASE c = "&" -> "&amp;"
      [] c = "<" -> "&lt;"
      [] c = ">" -> "&gt;"
      [] c = "\"" -> "&quot;"
      [] c = "'" -> "&#x27;"
      [] c = "=" -> "&#x3D;"
      [] OTHER -> c

RECURSIVE escapeExpression(_)
escapeExpression(s) ==
    IF s = "" THEN "" ELSE EscapeChar(Ch(s, 1)) \o escapeExpression(Rest(s))

-----------------------------------------------------------------------------
(* TemplateEngine: the templates *)

MaxRenderTools == 2
MaxRenderIntegrations == 1

\* a GeneratedTool as the templates read it; inputSchema may be missing, and
\* implementation is "" when the tool has none
Tool(name, toolDescription, hasInputSchema, properties, implementation) ==
    [name |-> name, description |-> toolDescription,
     hasInputSchema |-> hasInputSchema, properties |-> properties,
     implementation |-> implementation]

NamingTransforms == {"camelCase", "pascalCase", "kebabCase", "constantCase"}

\* the helpers of registerHelpers by name; "name" is a placeholder without helper
Transform(helper, str) ==
    CASE helper = "camelCase" -> camelCase(str)
      [] helper = "pascalCase" -> pascalCase(str)
      [] helper = "kebabCase" -> kebabCase(str)
      [] helper = "constantCase" -> constantCase(str)
      [] OTHER -> str

\* what {{helper value}} writes: the helper's result, HTML-escaped
Mustache(helper, str) == escapeExpression(Transform(helper, str))

\* A rendered file is the sequence of the parts its placeholders were expanded
\* to. A part records the place in the template (slot), the entity of the
\* configuration it was expanded for (kind and index), the helper used
\* (transform), the text the placeholder wrote (value) and that text with the
\* template's fixed text around it (text), e.g. 'getWeather' and 'getWeatherTool'.
Ref(slot, kind, index, helper, str, prefix, suffix) ==
    [slot |-> slot, kind |-> kind, index |-> index, transform |-> helper,
     value |-> Mustache(helper, str),
     text |-> prefix \o Mustache(helper, str) \o suffix]

\* text that names no entity: fixed text, descriptions, schemas, implementations
Text(slot, text) ==
    [slot |-> slot, kind |-> "none", index |-> 0, transform |-> "none",
     value |-> text, text |-> text]

\* JSON.stringify of a string
RECURSIVE JsonEscape(_)
JsonEscape(s) ==
    IF s = "" THEN ""
    ELSE (IF Ch(s, 1) = "\"" THEN "\\\""
          ELSE IF Ch(s, 1) = "\\" THEN "\\\\"
          ELSE Ch(s, 1)) \o JsonEscape(Rest(s))

JsonString(s) == "\"" \o JsonEscape(s) \o "\""

\* JSON.stringify(properties, null, 2) of a schema's properties, each { type }
RECURSIVE StringifyEntries(_, _)
StringifyEntries(properties, indent) ==
    IF properties = <<>> THEN ""
    ELSE indent \o "  " \o JsonString(Head(properties).key) \o ": {\n"
         \o indent \o "    \"type\": " \o JsonString(Head(properties).type) \o "\n"
         \o indent \o "  }"
         \o (IF Len(properties) > 1 THEN ",\n" ELSE "\n")
         \o StringifyEntries(Tail(properties), indent)

StringifyProperties(properties, indent) ==
    IF properties = <<>> THEN "{}"
    ELSE "{\n" \o StringifyEntries(properties, indent) \o indent \o "}"

\* the stringify helper on inputSchema ({ type, properties, required });
\* JSON.stringify(undefined) is undefined, which Handlebars writes as nothing
stringifyInputSchema(tool) ==
    IF ~tool.hasInputSchema THEN ""
    ELSE "{\n  \"type\": \"object\",\n  \"properties\": "
         \o StringifyProperties(tool.properties, "  ") \o "\n}"

\* the stringify helper on inputSchema.properties
stringifyInputProperties(tool) ==
    IF ~tool.hasInputSchema THEN "" ELSE StringifyProperties(tool.properties, "")

\* {{#each ../integrations}} {{camelCase name}}: this.{{camelCase name}}, {{/each}}
ContextArgument(c) ==
    Flatten([j \in 1..Len(c.integrations) |->
        << Ref("call.context.key", "integration", j, "camelCase",
               c.integrations[j].name, "", ""),
           Ref("call.context.value", "integration", j, "camelCase",
               c.integrations[j].name, "this.", "") >>])

\* name: '{{kebabCase name}}' in the answer to ListTools
ListName(c, i) == Ref("list.name", "tool", i, "kebabCase", c.customTools[i].name, "", "")

\* case '{{kebabCase name}}': in the CallTool handler
CaseLabel(c, i) == Ref("case.label", "tool", i, "kebabCase", c.customTools[i].name, "", "")

\* the template of src/index.ts, expanded for a configuration
generateServerIndex(c) ==
    Flatten([i \in 1..Len(c.customTools) |->
        << Ref("import.id", "tool", i, "camelCase", c.customTools[i].name, "", "Tool"),
           Ref("import.path", "tool", i, "kebabCase", c.customTools[i].name,
               "./tools/", ".js") >>])
    \o Flatten([j \in 1..Len(c.integrations) |->
        << Ref("import.id", "integration", j, "camelCase", c.integrations[j].name,
               "", "Integration"),
           Ref("import.path", "integration", j, "kebabCase", c.integrations[j].name,
               "./integrations/", ".js") >>])
    \o << Ref("class", "server", 0, "pascalCase", c.name, "", "Server") >>
    \o Flatten([j \in 1..Len(c.integrations) |->
        << Ref("field.id", "integration", j, "camelCase", c.integrations[j].name, "", ""),
           Ref("field.type", "integration", j, "pascalCase", c.integrations[j].name,
               "", "Integration") >>])
    \o << Ref("server.name", "server", 0, "name", c.name, "", "") >>
    \o Flatten([j \in 1..Len(c.integrations) |->
        << Ref("new.field", "integration", j, "camelCase", c.integrations[j].name,
               "this.", ""),
           Ref("new.id", "integration", j, "pascalCase", c.integrations[j].name,
               "", "Integration") >>])
    \o Flatten([i \in 1..Len(c.customTools) |->
        << ListName(c, i),
           Text("list.description", escapeExpression(c.customTools[i].description)),
           Text("list.inputSchema", stringifyInputSchema(c.customTools[i])) >>])
    \o Flatten([i \in 1..Len(c.customTools) |->
        << CaseLabel(c, i),
           Ref("call.id", "tool", i, "camelCase", c.customTools[i].name, "", "Tool") >>
        \o (IF Len(c.integrations) > 0 THEN ContextArgument(c) ELSE <<>>)])
    \o << Ref("run.log", "server", 0, "name", c.name, "", " running on stdio"),
          Ref("instance", "server", 0, "pascalCase", c.name, "", "Server") >>

\* an object's own keys in insertion order, each once
ObjectKeys(keys) == FirstOccurrences(keys, {})

\* JSON.stringify(packageJson, null, 2)
generatePackageJson(c) ==
    << Text("name", JsonString(c.name)),
       Text("version", JsonString("1.0.0")),
       Text("description", JsonString(c.description)) >>
    \o [k \in 1..Len(ObjectKeys(c.dependencies)) |->
          Text("dependency", JsonString(ObjectKeys(c.dependencies)[k]) \o ": "
                             \o JsonString("latest"))]
    \o << Text("devDependency", JsonString("@types/node") \o ": " \o JsonString("^20.0.0")),
          Text("devDependency", JsonString("typescript") \o ": " \o JsonString("^5.0.0")) >>

\* JSON.stringify(tsConfig, null, 2): nothing of the configuration is read
generateTsConfig ==
    << Text("compilerOptions.outDir", JsonString("./dist")),
       Text("compilerOptions.rootDir", JsonString("./src")),
       Text("include", JsonString("src/**/*")) >>

\* export interface ToolContext { {{#each integrations}} ... {{/each}} }
ToolContextFields(c) ==
    Flatten([j \in 1..Len(c.integrations) |->
        << Ref("context.key", "integration", j, "camelCase", c.integrations[j].name,
               "", ""),
           Ref("context.type", "integration", j, "pascalCase", c.integrations[j].name,
               "", "Integration") >>])

\* the template of src/tools/index.ts, and a variant that names the tools by
\* their descriptions
generateToolsIndex_ByDescription(c) ==
    Flatten([i \in 1..Len(c.customTools) |->
        << Ref("export.id", "tool", i, "camelCase", c.customTools[i].description,
               "", "Tool"),
           Ref("export.path", "tool", i, "kebabCase", c.customTools[i].description,
               "./", ".js") >>])
    \o ToolContextFields(c)

generateToolsIndex(c) ==
    Flatten([i \in 1..Len(c.customTools) |->
        << Ref("export.id", "tool", i, "camelCase", c.customTools[i].name, "", "Tool"),
           Ref("export.path", "tool", i, "kebabCase", c.customTools[i].name,
               "./", ".js") >>])
    \o ToolContextFields(c)

\* what the templates and generateEnvFile read as the envVars of an integration:
\* undefined, which counts as none, for an object without that property
EnvVarsOf(integration) ==
    IF "envVars" \in DOMAIN integration THEN integration.envVars ELSE <<>>

\* integrations.flatMap(integration => integration.envVars || [])
AllEnvVars(c) == Flatten([j \in 1..Len(c.integrations) |-> EnvVarsOf(c.integrations[j])])

\* .env.example, a template literal: nothing is escaped
generateEnvFile(c) ==
    << Text("header", "# Environment variables for " \o c.name) >>
    \o [k \in 1..Len(AllEnvVars(c)) |-> Text("envVar", AllEnvVars(c)[k] \o "=")]

\* {{#if envVars}} ... {{#each envVars}} - `{{this}}` {{/each}} {{/if}}
ReadmeEnvVars(integration) ==
    IF Len(EnvVarsOf(integration)) = 0 THEN <<>>
    ELSE << Text("envVars.heading", "**Required Environment Variables:**") >>
         \o [k \in 1..Len(EnvVarsOf(integration)) |->
               Text("envVar", escapeExpression(EnvVarsOf(integration)[k]))]

\* {{#each customTools}} of README.md
ReadmeTools(c) ==
    Flatten([i \in 1..Len(c.customTools) |->
        << Ref("tool.heading", "tool", i, "name", c.customTools[i].name, "### ", ""),
           Text("tool.description", escapeExpression(c.customTools[i].description)),
           Text("tool.inputSchema", stringifyInputSchema(c.customTools[i])) >>])

\* {{#each integrations}} of README.md
ReadmeIntegrations(c) ==
    Flatten([j \in 1..Len(c.integrations) |->
        << Ref("integration.heading", "integration", j, "name",
               c.integrations[j].name, "### ", ""),
           Text("integration.description",
                escapeExpression(c.integrations[j].description)) >>
        \o ReadmeEnvVars(c.integrations[j])])

\* the template of README.md, and a variant that writes the time of generation
generateReadme_Stamped(c) ==
    << Ref("title", "server", 0, "name", c.name, "# ", ""),
       Text("generatedAt", ToString(clock)),
       Text("description", escapeExpression(c.description)) >>
    \o ReadmeTools(c) \o ReadmeIntegrations(c)

generateReadme(c) ==
    << Ref("title", "server", 0, "name", c.name, "# ", ""),
       Text("description", escapeExpression(c.description)) >>
    \o ReadmeTools(c) \o ReadmeIntegrations(c)

\* The template of a tool module, compiled with { ...tool, integrations }.
\* {{#if ../integrations}} is evaluated at the root of the template, where
\* there is no parent context: it is never taken, so the exported function
\* has the single parameter args.
generateToolFile(c, i) ==
    (IF Len(c.integrations) > 0
     THEN << Text("import.context", "import { ToolContext } from './index.js';") >>
     ELSE <<>>)
    \o << Ref("schema.id", "tool", i, "camelCase", c.customTools[i].name, "", "Schema"),
          Text("schema.properties", stringifyInputProperties(c.customTools[i])),
          Text("description", escapeExpression(c.customTools[i].description)),
          Ref("export.id", "tool", i, "camelCase", c.customTools[i].name, "", "Tool"),
          Text("parameters", "args: unknown"),
          Ref("validate", "tool", i, "camelCase", c.customTools[i].name,
              "", "Schema.parse(args)") >>
    \o (IF c.customTools[i].implementation # ""
        THEN << Text("implementation", c.customTools[i].implementation) >>
        ELSE << Ref("todo", "tool", i, "name", c.customTools[i].name,
                    "// TODO: Implement ", " tool logic"),
                Ref("message", "tool", i, "name", c.customTools[i].name,
                    "", " tool executed successfully") >>)
    \o << Ref("catch", "tool", i, "name", c.customTools[i].name,
              "Error in ", " tool: ${errorMessage}") >>

\* {{#each envVars}} of an integration module, one variable
EnvVarConstant(envVar) ==
    << Ref("envVar.const", "envVar", 0, "constantCase", envVar, "const ", ""),
       Ref("envVar.read", "envVar", 0, "name", envVar, "process.env.", "") >>

EnvVarField(envVar) ==
    << Ref("envVar.field", "envVar", 0, "camelCase", envVar, "private ", ": string") >>

EnvVarBinding(envVar) ==
    << Ref("envVar.assign", "envVar", 0, "camelCase", envVar, "this.", ""),
       Ref("envVar.from", "envVar", 0, "constantCase", envVar, "", " || ''"),
       Ref("envVar.test", "envVar", 0, "camelCase", envVar, "if (!this.", ")"),
       Ref("envVar.throw", "envVar", 0, "name", envVar,
           "", " environment variable is required") >>

\* The template of an integration module, compiled with the integration; the
\* integrations rendered here declare no methods, so the {{else}} branch of
\* {{#if methods}} is written.
generateIntegrationFile(c, j) ==
    Flatten([k \in 1..Len(EnvVarsOf(c.integrations[j])) |->
               EnvVarConstant(EnvVarsOf(c.integrations[j])[k])])
    \o << Text("description", escapeExpression(c.integrations[j].description)),
          Ref("export.class", "integration", j, "pascalCase", c.integrations[j].name,
              "", "Integration") >>
    \o Flatten([k \in 1..Len(EnvVarsOf(c.integrations[j])) |->
                  EnvVarField(EnvVarsOf(c.integrations[j])[k])])
    \o Flatten([k \in 1..Len(EnvVarsOf(c.integrations[j])) |->
                  EnvVarBinding(EnvVarsOf(c.integrations[j])[k])])
    \o << Ref("example", "integration", j, "name", c.integrations[j].name,
              "Integration ", " is ready") >>

\* {{#each inputSchema.properties}} {{@key}}: {{this.type}} or any
ArgsFields(tool) ==
    IF ~tool.hasInputSchema THEN <<>>
    ELSE [k \in 1..Len(tool.properties) |->
            Text("args.field",
                 escapeExpression(tool.properties[k].key) \o ": "
                 \o (IF tool.properties[k].type # ""
                     THEN escapeExpression(tool.properties[k].type) ELSE "any"))]

\* the template of src/types.ts
generateTypesFile(c) ==
    << Ref("header", "server", 0, "name", c.name, "// Generated types for ", "") >>
    \o Flatten([i \in 1..Len(c.customTools) |->
        << Ref("args.interface", "tool", i, "pascalCase", c.customTools[i].name,
               "", "Args") >>
        \o ArgsFields(c.customTools[i])])

\* the file names of generateToolFile and generateIntegrationFile; the names
\* rendered hold no path separator, so path.join only puts the segments together
ToolFilePath(tool) == "src/tools/" \o kebabCase(tool.name) \o ".ts"

IntegrationFilePath(integration) ==
    "src/integrations/" \o kebabCase(integration.name) \o ".ts"

\* fs.writeFile on a tree: an existing path is overwritten where it stands
PathsOf(tree) == {tree[k].path : k \in 1..Len(tree)}

writeFile(tree, path, content) ==
    IF path \in PathsOf(tree)
    THEN [k \in 1..Len(tree) |->
            IF tree[k].path = path THEN [path |-> path, content |-> content]
            ELSE tree[k]]
    ELSE Append(tree, [path |-> path, content |-> content])

ContentAt(tree, path) ==
    (CHOOSE f \in Range(tree) : f.path = path).content

\* the four fs.ensureDir of generateServer, relative to outputDir
ScaffoldDirectories == <<".", "src", "src/tools", "src/integrations">>

(* the configurations rendered *)

RenderServers ==
    { [name |-> "weather-server", description |-> "Looks up the weather"] }

RenderTools ==
    { Tool("get_weather", "Weather by city", TRUE,
           <<[key |-> "city", type |-> "string"]>>, ""),
      Tool("Get Weather", "Tom's <forecast>", TRUE, <<>>, "return forecast(args);"),
      Tool("alertOps R&D", "", FALSE, <<>>, "") }

RenderIntegrations ==
    { CoreIntegration("github-api", "GitHub", <<"GITHUB_TOKEN">>),
      CoreIntegration("slack", "Slack & co", <<>>) }

RECURSIVE SeqsUpTo(_, _)
SeqsUpTo(S, n) ==
    IF n = 0 THEN {<<>>}
    ELSE SeqsUpTo(S, n - 1)
         \cup {Append(q, x) : q \in {r \in SeqsUpTo(S, n - 1) : Len(r) = n - 1}, x \in S}

RenderConfigs ==
    { [name |-> server.name, description |-> server.description,
       dependencies |-> <<"@modelcontextprotocol/sdk", "zod", "zod">>,
       customTools |-> tools, integrations |-> integs] :
        server \in RenderServers,
        tools \in SeqsUpTo(RenderTools, MaxRenderTools),
        integs \in SeqsUpTo(RenderIntegrations, MaxRenderIntegrations) }

(* TemplateEngine.generateServer, one action for each awaited step *)

RenderInit ==
    /\ renderPc = "idle"
    /\ renderConfig = EmptyConfig
    /\ renderRun = 0
    /\ renderIndex = 0
    /\ outputDirs = << <<>>, <<>> >>
    /\ outputTrees = << <<>>, <<>> >>
    /\ clock = 0
    /\ fsLog = << <<>>, <<>> >>
    /\ renderError = ""

\* every step takes time
Tick == clock' = clock + 1

\* an fs call of the current run and how it ended
FsCall(op, path, outcome) == [op |-> op, path |-> path, outcome |-> outcome]

Logged(op, path, outcome) ==
    fsLog' = [fsLog EXCEPT ![renderRun] = Append(@, FsCall(op, path, outcome))]

\* engine.generateServer(config, outputDir) with an empty outputDir
StartRender(c) ==
    /\ renderPc = "idle"
    /\ renderConfig' = c
    /\ renderRun' = 1
    /\ renderPc' = "ensureDir"
    /\ renderIndex' = 1
    /\ Tick
    /\ UNCHANGED <<outputDirs, outputTrees, fsLog, renderError>>
    /\ UNCHANGED <<resolverVars, envVars, builderVars, otherVars>>

\* the same engine and configuration again, into another empty directory
StartSecondRender ==
    /\ renderPc = "done"
    /\ renderRun = 1
    /\ renderRun' = 2
    /\ renderPc' = "ensureDir"
    /\ renderIndex' = 1
    /\ Tick
    /\ UNCHANGED <<renderConfig, outputDirs, outputTrees, fsLog, renderError>>
    /\ UNCHANGED <<resolverVars, envVars, builderVars, otherVars>>

\* await fs.ensureDir(...), four times
EnsureDir ==
    /\ renderPc = "ensureDir"
    /\ outputDirs' = [outputDirs EXCEPT
                        ![renderRun] = Append(@, ScaffoldDirectories[renderIndex])]
    /\ IF renderIndex < Len(ScaffoldDirectories)
       THEN renderIndex' = renderIndex + 1 /\ UNCHANGED renderPc
       ELSE renderIndex' = 0 /\ renderPc' = "serverIndex"
    /\ Logged("ensureDir", ScaffoldDirectories[renderIndex], "ok")
    /\ Tick
    /\ UNCHANGED <<renderConfig, renderRun, outputTrees, renderError>>
    /\ UNCHANGED <<resolverVars, envVars, builderVars, otherVars>>

\* one of the single-file steps: write the file and go on to the next step
WriteStep(at, path, content, next) ==
    /\ renderPc = at
    /\ outputTrees' = [outputTrees EXCEPT ![renderRun] = writeFile(@, path, content)]
    /\ renderPc' = next
    /\ Logged("writeFile", path, "ok")
    /\ Tick
    /\ UNCHANGED <<renderConfig, renderRun, outputDirs, renderError>>
    /\ UNCHANGED <<resolverVars, envVars, builderVars, otherVars>>

\* the step after the tool files and after the integration files
AfterToolFiles(c) == IF Len(c.integrations) > 0 THEN "integrationFiles" ELSE "typesFile"

AfterReadme(c) == IF Len(c.customTools) > 0 THEN "toolFiles" ELSE AfterToolFiles(c)

GenerateServerIndex ==
    /\ WriteStep("serverIndex", "src/index.ts", generateServerIndex(renderConfig),
                 "packageJson")
    /\ UNCHANGED renderIndex

GeneratePackageJson ==
    /\ WriteStep("packageJson", "package.json", generatePackageJson(renderConfig),
                 "tsConfig")
    /\ UNCHANGED renderIndex

GenerateTsConfig ==
    /\ WriteStep("tsConfig", "tsconfig.json", generateTsConfig, "toolsIndex")
    /\ UNCHANGED renderIndex

GenerateToolsIndex ==
    /\ WriteStep("toolsIndex", "src/tools/index.ts", generateToolsIndex(renderConfig),
                 "envFile")
    /\ UNCHANGED renderIndex

GenerateEnvFile ==
    /\ WriteStep("envFile", ".env.example", generateEnvFile(renderConfig), "readme")
    /\ UNCHANGED renderIndex

GenerateReadme ==
    /\ WriteStep("readme", "README.md", generateReadme(renderConfig),
                 AfterReadme(renderConfig))
    /\ renderIndex' = 1

\* generateToolFiles: for (const tool of config.customTools) await generateToolFile
GenerateToolFile ==
    /\ renderPc = "toolFiles"
    /\ WriteStep("toolFiles", ToolFilePath(renderConfig.customTools[renderIndex]),
                 generateToolFile(renderConfig, renderIndex),
                 IF renderIndex < Len(renderConfig.customTools) THEN "toolFiles"
                 ELSE AfterToolFiles(renderConfig))
    /\ renderIndex' = IF renderIndex < Len(renderConfig.customTools)
                      THEN renderIndex + 1 ELSE 1

\* generateIntegrationFiles: for (const integration of config.integrations) ...
GenerateIntegrationFile ==
    /\ renderPc = "integrationFiles"
    /\ WriteStep("integrationFiles",
                 IntegrationFilePath(renderConfig.integrations[renderIndex]),
                 generateIntegrationFile(renderConfig, renderIndex),
                 IF renderIndex < Len(renderConfig.integrations) THEN "integrationFiles"
                 ELSE "typesFile")
    /\ renderIndex' = IF renderIndex < Len(renderConfig.integrations)
                      THEN renderIndex + 1 ELSE 1

GenerateTypesFile ==
    /\ WriteStep("typesFile", "src/types.ts", generateTypesFile(renderConfig), "done")
    /\ renderIndex' = 0

(* A failing fs call. generateServer has no try/catch: the rejection of the
   awaited call ends it, and nothing it wrote is removed. *)

\* how an fs call fails: before anything is touched (EACCES), or, for a
\* write, after the file was opened, which leaves it on disk without the
\* content (ENOSPC)
FsFailures == {"EACCES", "ENOSPC"}

\* the path the awaited call of the current step is for
StepTarget ==
    CASE renderPc = "ensureDir" -> ScaffoldDirectories[renderIndex]
      [] renderPc = "serverIndex" -> "src/index.ts"
      [] renderPc = "packageJson" -> "package.json"
      [] renderPc = "tsConfig" -> "tsconfig.json"
      [] renderPc = "toolsIndex" -> "src/tools/index.ts"
      [] renderPc = "envFile" -> ".env.example"
      [] renderPc = "readme" -> "README.md"
      [] renderPc = "toolFiles" -> ToolFilePath(renderConfig.customTools[renderIndex])
      [] renderPc = "integrationFiles" ->
            IntegrationFilePath(renderConfig.integrations[renderIndex])
      [] renderPc = "typesFile" -> "src/types.ts"

RenderSteps ==
    {"ensureDir", "serverIndex", "packageJson", "tsConfig", "toolsIndex", "envFile",
     "readme", "toolFiles", "integrationFiles", "typesFile"}

\* what a failed call leaves of the tree, with everything written so far removed
TreeAfterFailure_RolledBack(tree, path, failure) == <<>>

\* what a failed call leaves of the tree
TreeAfterFailure(tree, path, failure) ==
    IF failure = "ENOSPC" /\ renderPc # "ensureDir"
    THEN writeFile(tree, path, <<>>)
    ELSE tree

\* the awaited fs.ensureDir or fs.writeFile rejects, and so does generateServer
StepFails(failure) ==
    /\ renderPc \in RenderSteps
    /\ renderPc' = "failed"
    /\ renderError' = failure
    /\ outputTrees' = [outputTrees EXCEPT
                         ![renderRun] = TreeAfterFailure(@, StepTarget, failure)]
    /\ Logged(IF renderPc = "ensureDir" THEN "ensureDir" ELSE "writeFile",
              StepTarget, "failed")
    /\ Tick
    /\ UNCHANGED <<renderConfig, renderRun, renderIndex, outputDirs>>
    /\ UNCHANGED <<resolverVars, envVars, builderVars, otherVars>>

(* MCPServerGenerator.generateValidatedServer on a configuration the caller
   wrote, and generateServer around the engine *)

GenerateServers ==
    { [name |-> "weather-server", description |-> "Looks up the weather"],
      [name |-> "weather-server", description |-> " "] }

GenerateTools ==
    { Tool("get_weather", "Weather by city", TRUE,
           <<[key |-> "city", type |-> "string"]>>, ""),
      Tool("Get Weather", "Forecast", TRUE, <<>>, "return forecast(args);"),
      Tool("index", "Builds the index", TRUE, <<>>, ""),
      Tool("audit", "", FALSE, <<>>, "") }

\* the last one is an integration of the catalog, as the resolver selects it
GenerateIntegrations ==
    { CoreIntegration("github-api", "GitHub", <<"GITHUB_TOKEN">>),
      CoreIntegration("slack", "", <<>>),
      IntegrationById("sendgrid") }

GenerateConfigs ==
    { [name |-> server.name, description |-> server.description,
       dependencies |-> <<"@modelcontextprotocol/sdk", "zod">>,
       customTools |-> tools, integrations |-> integs] :
        server \in GenerateServers,
        tools \in SeqsUpTo(GenerateTools, MaxRenderTools),
        integs \in SeqsUpTo(GenerateIntegrations, MaxRenderIntegrations) }

\* the caller has a configuration to pass to generateValidatedServer
HoldConfig(c) ==
    /\ builderPc = "new"
    /\ config' = c
    /\ builderPc' = "building"
    /\ UNCHANGED <<validationErrors, arrays, objects, produced, generatorError>>
    /\ UNCHANGED <<resolverVars, envVars, renderVars, otherVars>>

\* generateServer: await this.templateEngine.generateServer(config, outputDir)
GenerateServer ==
    /\ builderPc = "rendering"
    /\ StartRender(config)

\* the engine returned: generateServer logs the next steps and returns
GenerateServerReturns ==
    /\ builderPc = "rendering"
    /\ renderPc = "done"
    /\ builderPc' = "generated"
    /\ UNCHANGED <<config, validationErrors, arrays, objects, produced, generatorError>>
    /\ UNCHANGED <<resolverVars, envVars, renderVars, otherVars>>

\* the engine rejected: generateServer logs the error and throws it again
GenerateServerThrows ==
    /\ builderPc = "rendering"
    /\ renderPc = "failed"
    /\ builderPc' = "failed"
    /\ generatorError' = renderError
    /\ UNCHANGED <<config, validationErrors, arrays, objects, produced>>
    /\ UNCHANGED <<resolverVars, envVars, renderVars, otherVars>>

-----------------------------------------------------------------------------
(* The specifications *)

vars == <<resolverVars, envVars, builderVars, renderVars, otherVars>>

\* the resolver: AIGenerator.generateServerConfig
Init == ResolverInit /\ EnvIdle /\ BuilderInit /\ RenderInit /\ OtherIdle

Next ==
    \/ \E d \in Descriptions : Call(d)
    \/ \E a \in AnalysisResponses : AnalyzeReturns(a)
    \/ \E kind \in AnalyzeFailures : AnalyzeFails(kind)
    \/ \E name \in ToolNames : SynthesisReturns(name)
    \/ \E kind \in AnalyzeFailures : SynthesisFails(kind)

Spec == Init /\ [][Next]_vars

\* generateEnvironmentVariables applied to a list of integrations
InitEnv == ResolverInit /\ EnvInit /\ BuilderInit /\ RenderInit /\ OtherIdle

NextEnv == ApplyGenerateEnvironmentVariables

SpecEnv == InitEnv /\ [][NextEnv]_vars

\* the builder: MCPServerGenerator
InitBuilder == ResolverInit /\ EnvIdle /\ BuilderInit /\ RenderInit /\ OtherIdle

NextBuilder ==
    \/ \E server \in ServerInputs : CreateBasicConfig(server)
    \/ \E tool \in BuilderTools : AddTool(tool)
    \/ \E integration \in BuilderIntegrations : AddIntegration(integration)
    \/ \E dependency \in BuilderDependencies : AddDependency(dependency)
    \/ GenerateValidatedServer

SpecBuilder == InitBuilder /\ [][NextBuilder]_vars

\* the renderer: TemplateEngine.generateServer, run twice on a configuration
InitRender == ResolverInit /\ EnvIdle /\ BuilderInit /\ RenderInit /\ OtherIdle

NextRender ==
    \/ \E c \in RenderConfigs : StartRender(c)
    \/ EnsureDir
    \/ GenerateServerIndex
    \/ GeneratePackageJson
    \/ GenerateTsConfig
    \/ GenerateToolsIndex
    \/ GenerateEnvFile
    \/ GenerateReadme
    \/ GenerateToolFile
    \/ GenerateIntegrationFile
    \/ GenerateTypesFile
    \/ StartSecondRender

SpecRender == InitRender /\ [][NextRender]_vars

\* generateValidatedServer on a configuration, with fs calls that may fail
InitGenerate == ResolverInit /\ EnvIdle /\ BuilderInit /\ RenderInit /\ OtherIdle

NextGenerate ==
    \/ \E c \in GenerateConfigs : HoldConfig(c)
    \/ GenerateValidatedServer
    \/ GenerateServer
    \/ EnsureDir
    \/ GenerateServerIndex
    \/ GeneratePackageJson
    \/ GenerateTsConfig
    \/ GenerateToolsIndex
    \/ GenerateEnvFile
    \/ GenerateReadme
    \/ GenerateToolFile
    \/ GenerateIntegrationFile
    \/ GenerateTypesFile
    \/ \E failure \in FsFailures : StepFails(failure)
    \/ GenerateServerReturns
    \/ GenerateServerThrows

SpecGenerate == InitGenerate /\ [][NextGenerate]_vars

-----------------------------------------------------------------------------
(* Properties of generateEnvironmentVariables *)

\* the (integration, property) pairs of a list of integrations
EnvPairs(integs) ==
    UNION {{<<g, q>> : q \in Range(g.configSchema.properties)} :
            g \in {h \in Range(integs) : h.configSchema.hasProperties}}

\* C10: the keys of the map are exactly UPPER(id) + '_' + UPPER(property) for
\* the properties of the integrations passed (SENDGRID_APIKEY and
\* SENDGRID_FROMEMAIL for sendgrid with {apiKey, fromEmail}), each once, and
\* each value is the description of a property the key comes from, or
\* '<displayName> <property>' when that property has none.
C10_EnvironmentKeys ==
    envPc = "done" =>
        /\ {e.key : e \in Range(envResult)} =
             {toUpperCase(pair[1].id) \o "_" \o toUpperCase(pair[2].key) :
                pair \in EnvPairs(envInput)}
        /\ NoDuplicates([i \in 1..Len(envResult) |-> envResult[i].key])
        /\ \A e \in Range(envResult) : \E pair \in EnvPairs(envInput) :
             /\ e.key = toUpperCase(pair[1].id) \o "_" \o toUpperCase(pair[2].key)
             /\ e.value = IF pair[2].description # "" THEN pair[2].description
                          ELSE pair[1].displayName \o " " \o pair[2].key
        /\ envInput = <<ScenarioCIntegration>> =>
             envResult = << [key |-> "SENDGRID_APIKEY", value |-> "The API key"],
                            [key |-> "SENDGRID_FROMEMAIL", value |-> "SendGrid fromEmail"] >>

\* the map of scenario C was computed, one value a description and one the default
C10_Witness ==
    /\ envPc = "done"
    /\ envInput = <<ScenarioCIntegration>>
    /\ Len(envResult) = 2
    /\ envResult[2].value = "SendGrid fromEmail"

-----------------------------------------------------------------------------
(* Properties of the builder *)

\* C5: addTool never accepts a tool whose name duplicates, up to casing and
\* separators ('get-weather' and 'Get Weather'), the name of a tool already in
\* the configuration: no configuration holds two such tools.
C5_AddToolRejectsDuplicates ==
    NoDuplicates([i \in 1..Len(config.customTools) |->
                    sanitizeName(config.customTools[i].name)])

-----------------------------------------------------------------------------
(* Properties of the renderer *)

\* the parts of a run's files that name a tool or an integration
NameReferences(run) ==
    UNION {{p \in Range(f.content) : p.kind \in {"tool", "integration"}} :
            f \in Range(outputTrees[run])}

\* the names of the tools, or of the integrations, of a configuration
NamesOfKind(c, kind) ==
    IF kind = "tool" THEN {t.name : t \in Range(c.customTools)}
    ELSE {g.name : g \in Range(c.integrations)}

\* the name of the entity a part was expanded for
EntityName(c, p) ==
    IF p.kind = "tool" THEN c.customTools[p.index].name
    ELSE c.integrations[p.index].name

\* C6: two runs of generateServer on the same configuration into two empty
\* directories leave the same directories and the same relative paths with
\* the same contents, whatever time passed and whatever the first run left.
C6_RenderDeterministic ==
    (renderRun = 2 /\ renderPc = "done") =>
        /\ Range(outputTrees[1]) = Range(outputTrees[2])
        /\ Range(outputDirs[1]) = Range(outputDirs[2])

\* both runs ended, on a configuration with a tool and an integration
C6_Witness ==
    /\ renderRun = 2
    /\ renderPc = "done"
    /\ Len(renderConfig.customTools) > 0
    /\ Len(renderConfig.integrations) > 0
    /\ Len(outputTrees[2]) >= 9
    /\ clock > 20

ReferenceTexts(c, kind) ==
    {escapeExpression(Transform(helper, n)) :
        helper \in NamingTransforms \cup {"name"}, n \in NamesOfKind(c, kind)}

PartAt(content, slot, kind, index) ==
    CHOOSE p \in Range(content) : p.slot = slot /\ p.kind = kind /\ p.index = index

\* the file an import of src/index.ts names: './tools/x.js' is src/tools/x.ts
ImportTarget(path) == "src/" \o SubSeq(path, 3, Len(path) - 3) \o ".ts"

\* the identifiers a file exports
ExportsOf(tree, path) ==
    IF path \in PathsOf(tree)
    THEN {p.text : p \in {q \in Range(ContentAt(tree, path)) :
                            q.slot \in {"export.id", "export.class"}}}
    ELSE {}

\* C8: when a render has ended, for every tool and every integration the
\* identifier src/index.ts imports is one the imported module exports, the
\* identifier it calls or instantiates is the one it imported, and the import
\* path names the file written for that tool or integration.
C8_EntryPointReferences ==
    renderPc = "done" =>
        LET tree == outputTrees[renderRun]
            entry == ContentAt(tree, "src/index.ts")
        IN /\ \A i \in 1..Len(renderConfig.customTools) :
                /\ ImportTarget(PartAt(entry, "import.path", "tool", i).text)
                     = ToolFilePath(renderConfig.customTools[i])
                /\ PartAt(entry, "import.id", "tool", i).text
                     \in ExportsOf(tree, ToolFilePath(renderConfig.customTools[i]))
                /\ PartAt(entry, "call.id", "tool", i).text
                     = PartAt(entry, "import.id", "tool", i).text
           /\ \A j \in 1..Len(renderConfig.integrations) :
                /\ ImportTarget(PartAt(entry, "import.path", "integration", j).text)
                     = IntegrationFilePath(renderConfig.integrations[j])
                /\ PartAt(entry, "import.id", "integration", j).text
                     \in ExportsOf(tree, IntegrationFilePath(renderConfig.integrations[j]))
                /\ PartAt(entry, "new.id", "integration", j).text
                     = PartAt(entry, "import.id", "integration", j).text

-----------------------------------------------------------------------------
(* Further properties of the resolver *)

\* only uppercase letters, digits and underscores
RECURSIVE IsUpperSnake(_)
IsUpperSnake(s) ==
    \/ s = ""
    \/ /\ IsUpper(Ch(s, 1)) \/ IsDigit(Ch(s, 1)) \/ Ch(s, 1) = "_"
       /\ IsUpperSnake(Rest(s))

\* C11: every key of environmentVariables in a configuration the resolver
\* returns consists only of uppercase letters, digits and underscores.
C11_KeysUpperSnake ==
    pc = "returned" =>
        \A e \in Range(serverConfig.environmentVariables) : IsUpperSnake(e.key)

\* the keyword tests of the fallback table on a description
Mentions(d, keyword) == includes(toLowerCase(d), keyword)

\* C12: the fallback analysis has complexity 'simple', and its categories and
\* suggested integrations are exactly those of the keyword table applied to
\* the lower-cased description: github gives api and github, slack gives
\* notification and slack, database or sql gives database and postgresql,
\* file or upload gives file, email gives notification and sendgrid, and api
\* is there by default exactly when no rule gave a category.
C12_FallbackTable ==
    analyzeOutcome \in AnalyzeFailures =>
        LET d == description
            categories == Range(analysis.toolCategories)
            suggested == Range(analysis.suggestedIntegrations)
            noRule == ~(\/ Mentions(d, "github") \/ Mentions(d, "slack")
                        \/ Mentions(d, "database") \/ Mentions(d, "sql")
                        \/ Mentions(d, "file") \/ Mentions(d, "upload")
                        \/ Mentions(d, "email"))
        IN /\ analysis.complexity = "simple"
           /\ categories \subseteq {"api", "notification", "database", "file"}
           /\ suggested \subseteq {"github", "slack", "postgresql", "sendgrid"}
           /\ "api" \in categories <=> (Mentions(d, "github") \/ noRule)
           /\ "notification" \in categories <=>
                (Mentions(d, "slack") \/ Mentions(d, "email"))
           /\ "database" \in categories <=>
                (Mentions(d, "database") \/ Mentions(d, "sql"))
           /\ "file" \in categories <=> (Mentions(d, "file") \/ Mentions(d, "upload"))
           /\ "github" \in suggested <=> Mentions(d, "github")
           /\ "slack" \in suggested <=> Mentions(d, "slack")
           /\ "postgresql" \in suggested <=>
                (Mentions(d, "database") \/ Mentions(d, "sql"))
           /\ "sendgrid" \in suggested <=> Mentions(d, "email")
           /\ noRule => analysis.toolCategories = <<"api">>

\* the analysis call failed on a description that names email in capitals
C12_Witness ==
    /\ analyzeOutcome \in AnalyzeFailures
    /\ description = "EMAIL me"
    /\ analysis.toolCategories = <<"notification">>
    /\ analysis.suggestedIntegrations = <<"sendgrid">>
    /\ analysis.complexity = "simple"

\* the patterns whose synthesis call answered with a tool
SucceededPatterns == {e.index : e \in {x \in Range(synthesisLog) : x.outcome = "ok"}}

\* C17: a failing synthesis call never makes generateServerConfig throw; the
\* loop goes on to the next pattern, and the configuration returned holds
\* exactly one tool for each selected pattern whose call succeeded and none
\* for the others.
C17_SynthesisFailureNonFatal ==
    /\ pc = "threw" => synthesisLog = <<>>
    /\ pc = "synthesize" => Len(synthesisLog) = patternIndex - 1
    /\ pc = "returned" =>
         /\ Len(synthesisLog) = Len(toolPatterns)
         /\ Len(serverConfig.customTools) = Cardinality(SucceededPatterns)
         /\ NullTool \notin Range(serverConfig.customTools)
         /\ \A i \in 1..Len(toolPatterns) :
              Cardinality({k \in 1..Len(serverConfig.customTools) :
                             serverConfig.customTools[k].patternId = toolPatterns[i]})
                = IF i \in SucceededPatterns THEN 1 ELSE 0

\* a configuration was returned after the first and the last of several
\* synthesis calls failed
C17_Witness ==
    /\ pc = "returned"
    /\ Len(toolPatterns) >= 3
    /\ synthesisLog[1].outcome = "failed"
    /\ synthesisLog[2].outcome = "ok"
    /\ synthesisLog[Len(synthesisLog)].outcome = "failed"
    /\ Len(serverConfig.customTools) = Len(toolPatterns) - 2

\* the place of a pattern in the selected list
PositionOf(patternId) == CHOOSE i \in 1..Len(toolPatterns) : toolPatterns[i] = patternId

\* C20: the tools collected are in the order of their patterns in the selected
\* list, however the synthesis calls complete, and the configuration is only
\* assembled, from those tools, once every synthesis call has been answered.
C20_ToolsInSelectionOrder ==
    /\ \A k1, k2 \in 1..Len(customTools) :
         k1 < k2 => PositionOf(customTools[k1].patternId)
                      < PositionOf(customTools[k2].patternId)
    /\ pc = "returned" =>
         /\ Len(synthesisLog) = Len(toolPatterns)
         /\ serverConfig.customTools = customTools
    /\ pc # "returned" => serverConfig = NoConfig

\* a configuration was returned with the tools of the second, fourth and
\* fifth of five patterns
C20_Witness ==
    /\ pc = "returned"
    /\ Len(toolPatterns) = 5
    /\ [k \in 1..Len(serverConfig.customTools) |->
          PositionOf(serverConfig.customTools[k].patternId)] = <<2, 4, 5>>

-----------------------------------------------------------------------------
(* Further properties of the builder *)

\* the array-valued field an operation replaces
TargetOf(operation) ==
    CASE operation = "addTool" -> "customTools"
      [] operation = "addIntegration" -> "integrations"
      [] operation = "addDependency" -> "dependencies"
      [] OTHER -> "none"

\* C13: after any sequence of addTool, addIntegration and addDependency,
\* every configuration returned so far still has the value it had when it
\* was returned, each result refers to a new array for the field its
\* operation targets, and its other fields are those of the configuration
\* that was passed in.
C13_OperationsLeaveInputUnchanged ==
    /\ \A k \in 1..Len(objects) : Deref(arrays, objects[k]) = produced[k].value
    /\ Len(objects) > 0 => config = Deref(arrays, Held)
    /\ \A k \in 2..Len(objects) :
         LET target == TargetOf(produced[k].operation)
         IN /\ objects[k][target] # objects[k - 1][target]
            /\ \A f \in DOMAIN objects[k] \ {target} :
                 /\ objects[k][f] = objects[k - 1][f]
                 /\ produced[k].value[f] = produced[k - 1].value[f]

\* one operation of each kind was applied, and the first configuration is
\* still empty
C13_Witness ==
    /\ Len(objects) = 4
    /\ {produced[k].operation : k \in 2..4} = {"addTool", "addIntegration", "addDependency"}
    /\ Deref(arrays, objects[1]).customTools = <<>>
    /\ Len(config.customTools) = 1
    /\ Len(config.integrations) = 1
    /\ Len(config.dependencies) = 3

\* two entries of a list of tools or integrations have names equal ignoring case
DuplicateNames(entries) ==
    \E i, j \in 1..Len(entries) :
        i # j /\ toLowerCase(entries[i].name) = toLowerCase(entries[j].name)

\* C15: once generateValidatedServer has validated a configuration, a
\* configuration in which two tools, or two integrations, have names equal
\* ignoring case has the duplicate-name violation among its errors, with or
\* without integrations, and is not passed on to the renderer.
C15_DuplicatesReported ==
    builderPc \in {"rejected", "rendering"} =>
        /\ DuplicateNames(config.customTools) =>
             /\ "Duplicate tool names detected" \in Range(validationErrors)
             /\ builderPc = "rejected"
        /\ DuplicateNames(config.integrations) =>
             /\ "Duplicate integration names detected" \in Range(validationErrors)
             /\ builderPc = "rejected"

-----------------------------------------------------------------------------
(* Properties of generateValidatedServer and of a failing render *)

NothingWritten ==
    /\ renderPc = "idle"
    /\ outputDirs = << <<>>, <<>> >>
    /\ outputTrees = << <<>>, <<>> >>
    /\ fsLog = << <<>>, <<>> >>

\* C14: when validateConfig finds violations, generateValidatedServer throws
\* an error whose message holds every one of them, the engine is not called
\* and no directory or file is created; the engine only ever runs on a
\* configuration without violations.
C14_ValidationFailureFatal ==
    /\ builderPc = "rejected" =>
         /\ validateConfig(config) # <<>>
         /\ \A e \in Range(validateConfig(config)) : includes(generatorError, e)
         /\ NothingWritten
    /\ builderPc \in {"rendering", "generated", "failed"} => validateConfig(config) = <<>>
    /\ renderPc # "idle" => validateConfig(renderConfig) = <<>>

\* a configuration with several violations was rejected
C14_Witness ==
    /\ builderPc = "rejected"
    /\ Len(validationErrors) >= 3
    /\ Len(config.customTools) > 0
    /\ NothingWritten

\* when the render has failed: one call failed, the last one made; what the
\* calls before it created is there; the generator has thrown the same error
\* or is about to
FailedRenderState ==
    renderPc = "failed" =>
        LET log == fsLog[renderRun]
        IN /\ Len(log) > 0
           /\ log[Len(log)].outcome = "failed"
           /\ \A k \in 1..(Len(log) - 1) :
                /\ log[k].outcome = "ok"
                /\ log[k].op = "writeFile" => log[k].path \in PathsOf(outputTrees[renderRun])
                /\ log[k].op = "ensureDir" => log[k].path \in Range(outputDirs[renderRun])
           /\ renderError \in FsFailures
           /\ builderPc \in {"rendering", "failed"}
           /\ builderPc = "failed" => generatorError = renderError

\* the step at which a call fails removes nothing and leaves every file but
\* the one being written as it was; after it nothing is called or written;
\* and the generator's next step is to throw the engine's error
FailedRenderStep ==
    /\ (renderPc # "failed" /\ renderPc' = "failed") =>
         /\ outputDirs' = outputDirs
         /\ PathsOf(outputTrees[renderRun]) \subseteq PathsOf(outputTrees'[renderRun])
         /\ \A f \in Range(outputTrees[renderRun]) :
              f.path # StepTarget => f \in Range(outputTrees'[renderRun])
    /\ renderPc = "failed" =>
         /\ UNCHANGED <<renderPc, outputDirs, outputTrees, fsLog>>
         /\ builderPc = "rendering" =>
              (builderPc' = "failed" /\ generatorError' = renderError)

\* C16: when a directory creation or file write of generateServer fails, the
\* failing call was made once and is the last fs call of the render, no file
\* is written after it, every file written before it is still on disk, and
\* MCPServerGenerator.generateServer throws the same error.
C16_FailureNotTransactional ==
    [](FailedRenderState) /\ [][FailedRenderStep]_vars

\* a write failed after files had been written, and the error reached the caller
C16_Witness ==
    /\ builderPc = "failed"
    /\ renderError = "ENOSPC"
    /\ generatorError = "ENOSPC"
    /\ Len(outputTrees[1]) >= 4
    /\ renderPc = "failed"

-----------------------------------------------------------------------------
(* Further properties of the renderer *)

\* the places in the log of a run of the file writes that succeeded
WritesOf(run) ==
    {k \in 1..Len(fsLog[run]) :
        fsLog[run][k].op = "writeFile" /\ fsLog[run][k].outcome = "ok"}

\* C18: within one render of a configuration accepted by validateConfig no two
\* file writes have the same path, so each tool and each integration has a
\* module of its own, distinct from the others and from the fixed files.
C18_NoSharedWriteTarget ==
    \A run \in 1..2 :
        \A k1, k2 \in WritesOf(run) :
            k1 # k2 => fsLog[run][k1].path # fsLog[run][k2].path

\* the place of an fs call in the emission order: scaffold, entry point,
\* manifest, tool modules, integration modules, environment template,
\* documentation, type declarations; 0 for the calls the order does not name
EmissionStage(c, call) ==
    CASE call.op = "ensureDir" -> 1
      [] call.path = "src/index.ts" -> 2
      [] call.path = "package.json" -> 3
      [] call.path \in {ToolFilePath(c.customTools[i]) : i \in 1..Len(c.customTools)} -> 4
      [] call.path \in {IntegrationFilePath(c.integrations[j]) :
                          j \in 1..Len(c.integrations)} -> 5
      [] call.path = ".env.example" -> 6
      [] call.path = "README.md" -> 7
      [] call.path = "src/types.ts" -> 8
      [] OTHER -> 0

\* C19: the fs calls of a render are made in the emission order; in
\* particular every tool module and every integration module is written
\* before the environment template and the documentation.
C19_EmissionOrder ==
    \A run \in 1..2 :
        \A k1, k2 \in 1..Len(fsLog[run]) :
            LET first == EmissionStage(renderConfig, fsLog[run][k1])
                second == EmissionStage(renderConfig, fsLog[run][k2])
            IN (k1 < k2 /\ first # 0 /\ second # 0) => first <= second

-----------------------------------------------------------------------------
(* Properties of the selection *)

\* the place of a pattern in the catalog
CatalogPosition(patternId) ==
    CHOOSE i \in 1..Len(TOOL_PATTERNS) : TOOL_PATTERNS[i].id = patternId

\* C21: the selected patterns hold no id twice and are in catalog order: of
\* two selected patterns the one selected first comes first in TOOL_PATTERNS,
\* whatever the order of the categories and actions of the analysis.
C21_SelectionInCatalogOrder ==
    /\ NoDuplicates(toolPatterns)
    /\ \A k1, k2 \in 1..Len(toolPatterns) :
         k1 < k2 => CatalogPosition(toolPatterns[k1]) < CatalogPosition(toolPatterns[k2])

-----------------------------------------------------------------------------
(* The Matcher: findMatchingPatterns and findMatchingIntegrations *)

MaxKeywords == 2

\* term.toLowerCase().includes(keyword) || keyword.includes(term.toLowerCase()),
\* the keyword lower-cased beforehand
MatchesTerm(term, keyword) ==
    \/ includes(toLowerCase(term), keyword)
    \/ includes(keyword, toLowerCase(term))

findMatchingPatterns(keywords, actions) ==
    LET given == keywords \o actions
        allKeywords == [k \in 1..Len(given) |-> toLowerCase(given[k])]
        actionMatch(pattern) ==
            \E i \in 1..Len(pattern.actions) : \E k \in 1..Len(allKeywords) :
                MatchesTerm(pattern.actions[i], allKeywords[k])
        exampleMatch(pattern) ==
            \E i \in 1..Len(pattern.examples) : \E k \in 1..Len(allKeywords) :
                MatchesTerm(pattern.examples[i], allKeywords[k])
        categoryMatch(pattern) == toLowerCase(pattern.category) \in Range(allKeywords)
    IN  Ids(SelectSeq(TOOL_PATTERNS, LAMBDA pattern :
            actionMatch(pattern) \/ exampleMatch(pattern) \/ categoryMatch(pattern)))

findMatchingIntegrations(keywords) ==
    LET lowerKeywords == [k \in 1..Len(keywords) |-> toLowerCase(keywords[k])]
    IN  Ids(SelectSeq(INTEGRATIONS, LAMBDA integration :
            \E k \in 1..Len(lowerKeywords) :
                \/ includes(toLowerCase(integration.id), lowerKeywords[k])
                \/ includes(toLowerCase(integration.name), lowerKeywords[k])
                \/ includes(toLowerCase(integration.displayName), lowerKeywords[k])
                \/ includes(toLowerCase(integration.description), lowerKeywords[k])))

\* the keywords and actions the Matcher is called with
KeywordPool ==
    {"GitHub", "github issues", "SQL", "Notification", "send an sms",
     "storage", "s3 bucket of AWS S3 storage", "auth"}

MatcherKeywords == SeqsUpTo(KeywordPool, MaxKeywords)

MatcherActions == {<<>>, <<"Delete">>, <<"verify the login">>}

MatcherInit ==
    /\ matchPc = "ready"
    /\ matchKeywords \in MatcherKeywords
    /\ matchActions = <<>>
    /\ matchResult = <<>>

FindMatchingPatterns(actions) ==
    /\ matchPc = "ready"
    /\ matchPc' = "patterns"
    /\ matchActions' = actions
    /\ matchResult' = findMatchingPatterns(matchKeywords, actions)
    /\ UNCHANGED matchKeywords
    /\ UNCHANGED <<resolverVars, envVars, builderVars, renderVars>>
    /\ UNCHANGED <<serveVars, deployVars, cliVars>>

FindMatchingIntegrations ==
    /\ matchPc = "ready"
    /\ matchPc' = "integrations"
    /\ matchResult' = findMatchingIntegrations(matchKeywords)
    /\ UNCHANGED <<matchKeywords, matchActions>>
    /\ UNCHANGED <<resolverVars, envVars, builderVars, renderVars>>
    /\ UNCHANGED <<serveVars, deployVars, cliVars>>

InitMatcher ==
    /\ ResolverInit /\ EnvIdle /\ BuilderInit /\ RenderInit
    /\ MatcherInit /\ ServeIdle /\ DeployIdle /\ CliIdle

NextMatcher ==
    \/ \E actions \in MatcherActions : FindMatchingPatterns(actions)
    \/ FindMatchingIntegrations

SpecMatcher == InitMatcher /\ [][NextMatcher]_vars

\* a term and a keyword match when, case ignored, either contains the other
ContainsEitherWay(term, keyword) ==
    \/ includes(toLowerCase(term), toLowerCase(keyword))
    \/ includes(toLowerCase(keyword), toLowerCase(term))

\* some keyword matches some of the terms
AnyMatch(terms, keywords) ==
    \E term \in terms : \E k \in 1..Len(keywords) : ContainsEitherWay(term, keywords[k])

\* C24: the Matcher returns, in catalog order, the patterns one of whose
\* actions, examples or category matches a keyword, and the integrations
\* whose id, name, display name or description matches a keyword, where a
\* term and a keyword match when, case ignored, either contains the other.
C24_MatcherBothDirections ==
    /\ matchPc = "patterns" =>
         matchResult = Ids(SelectSeq(TOOL_PATTERNS, LAMBDA pattern :
            AnyMatch(Range(pattern.actions) \cup Range(pattern.examples)
                        \cup {pattern.category},
                     matchKeywords \o matchActions)))
    /\ matchPc = "integrations" =>
         matchResult = Ids(SelectSeq(INTEGRATIONS, LAMBDA integration :
            AnyMatch({integration.id, integration.name, integration.displayName,
                      integration.description},
                     matchKeywords)))

-----------------------------------------------------------------------------
(* Properties of selectIntegrations *)

\* the catalog integrations named by the suggested ids, then the Matcher's
\* results for each service, each id once, capped
ExpectedIntegrations(a) ==
    Take(FirstOccurrences(
            Flatten([i \in 1..Len(a.suggestedIntegrations) |->
                        SuggestedLookup(a.suggestedIntegrations[i])])
            \o Flatten([i \in 1..Len(a.services) |->
                        findMatchingIntegrations(<<a.services[i]>>)]),
            {}),
         MaxIntegrations)

\* C22: for every analysis, also one that names services, selectIntegrations
\* completes normally and returns the integrations of the suggested ids that
\* are in the catalog and the Matcher's results for the services, each once.
C22_SelectIntegrationsCompletes ==
    (analyzeOutcome # "none" /\ ~analysis.isNull) =>
        /\ pc # "threw"
        /\ integrations = ExpectedIntegrations(analysis)
        /\ NoDuplicates(integrations)

-----------------------------------------------------------------------------
(* Properties of generateServerName *)

NameSuffix == "-mcp-server"

\* the letters and digits of a string, lower-cased, in order
RECURSIVE LettersAndDigits(_)
LettersAndDigits(s) ==
    IF s = "" THEN ""
    ELSE LET c == toLowerCase(Ch(s, 1))
         IN  (IF IsLower(c) \/ IsDigit(c) THEN c ELSE "") \o LettersAndDigits(Rest(s))

\* the summary the name is computed from
NamedSummary == IF analysis.summary = "" THEN "MCP Server" ELSE analysis.summary

\* C23: the name of a returned configuration is made of a-z, 0-9 and '-'
\* only, has no two hyphens in a row, ends with '-mcp-server', and what comes
\* before that suffix is made of the letters and digits of the first three
\* space-separated words of the summary, lower-cased.
C23_ServerNameSlug ==
    pc = "returned" =>
        LET name == serverConfig.name
            stem == SubSeq(name, 1, Len(name) - Len(NameSuffix))
        IN  /\ Len(name) >= Len(NameSuffix)
            /\ SubSeq(name, Len(name) - Len(NameSuffix) + 1, Len(name)) = NameSuffix
            /\ \A i \in 1..Len(name) :
                 IsLower(Ch(name, i)) \/ IsDigit(Ch(name, i)) \/ Ch(name, i) = "-"
            /\ ~includes(name, "--")
            /\ LettersAndDigits(stem)
                 = LettersAndDigits(join(Take(split(NamedSummary), 3), ""))

\* a name made from a summary of four words, one of them of hyphens only
C23_Witness ==
    /\ pc = "returned"
    /\ analysis.summary = "Notify -- the team!"
    /\ serverConfig.name = "notify-the-mcp-server"

-----------------------------------------------------------------------------
(* Properties of selectToolPatterns *)

\* the patterns a category or an action of the analysis matches
MatchedPatterns(a) ==
    UNION {Range(PatternsOfCategory(a.toolCategories[i])) : i \in 1..Len(a.toolCategories)}
    \cup UNION {Range(PatternsOfAction(a.primaryActions[i])) : i \in 1..Len(a.primaryActions)}

\* C27: whatever the analysis, selectToolPatterns returns at least one and at
\* most five patterns, all of the catalog; when no category and no action of
\* the analysis matches a pattern it returns the first catalog pattern,
\* api-request, alone.
C27_SelectionNeverEmpty ==
    (analyzeOutcome # "none" /\ ~analysis.isNull) =>
        /\ Len(toolPatterns) >= 1
        /\ Len(toolPatterns) <= 5
        /\ Range(toolPatterns) \subseteq PatternIds
        /\ MatchedPatterns(analysis) = {} => toolPatterns = <<"api-request">>
        /\ MatchedPatterns(analysis) # {} => Range(toolPatterns) \subseteq MatchedPatterns(analysis)

\* a configuration returned for an analysis whose category and action match
\* no pattern
C27_Witness ==
    /\ pc = "returned"
    /\ analysis.toolCategories = <<"circus">>
    /\ analysis.primaryActions = <<"juggle">>
    /\ serverConfig.patterns = <<"api-request">>

-----------------------------------------------------------------------------
(* Properties of the integration modules *)

\* the environment variables an integration declares as required: envVars in
\* the renderer's IntegrationConfig, environmentVariables in the catalog's
DeclaredEnvVars(integration) ==
    IF "envVars" \in DOMAIN integration THEN integration.envVars
    ELSE IF "environmentVariables" \in DOMAIN integration
         THEN integration.environmentVariables
         ELSE <<>>

\* the parts of a rendered file written at a slot of its template
PartsAt(content, slot) == {content[k] : k \in {i \in 1..Len(content) : content[i].slot = slot}}

\* C26: once a render is done, for every integration of the configuration and
\* every environment variable it declares as required, the integration's
\* module assigns the variable to a field in its constructor and throws naming
\* the variable when the field is empty, and .env.example has a line for it.
C26_RequiredVariablesBound ==
    renderPc = "done" =>
        \A j \in 1..Len(renderConfig.integrations) :
            LET integration == renderConfig.integrations[j]
                module == ContentAt(outputTrees[renderRun], IntegrationFilePath(integration))
                template == ContentAt(outputTrees[renderRun], ".env.example")
            IN  \A k \in 1..Len(DeclaredEnvVars(integration)) :
                    LET envVar == DeclaredEnvVars(integration)[k]
                    IN  /\ \E part \in PartsAt(module, "envVar.assign") :
                             part.value = Mustache("camelCase", envVar)
                        /\ \E part \in PartsAt(module, "envVar.test") :
                             part.value = Mustache("camelCase", envVar)
                        /\ \E part \in PartsAt(module, "envVar.throw") :
                             part.value = Mustache("name", envVar)
                        /\ \E part \in PartsAt(template, "envVar") :
                             part.text = envVar \o "="

-----------------------------------------------------------------------------
(* The generated server at run time: the CallTool handler of src/index.ts  *)
(* and the tool functions of src/tools, as the templates write them        *)

ServeConfigs == RenderConfigs

\* the tool names CallTool requests carry
RequestNames == {"get-weather", "get_weather", "alert-ops-r&amp;d", "no-such-tool"}

\* the arguments of a request: whether they satisfy the tool's schema
RequestArguments == {"valid", "invalid"}

\* what an implementation body throws
BodyFailures == {"Error", "string"}

\* the labels of the switch of the CallTool handler, in order
CaseLabels(c) == [i \in 1..Len(c.customTools) |-> CaseLabel(c, i)]

\* the names ListTools answers
ListedNames(c) == {ListName(c, i).value : i \in 1..Len(c.customTools)}

\* switch (name): the first case whose label is the name, 0 for default
DispatchTarget(c, name) ==
    LET labels == CaseLabels(c)
        matching == {k \in 1..Len(labels) : labels[k].value = name}
    IN  IF matching = {} THEN 0
        ELSE labels[CHOOSE k \in matching : \A other \in matching : k <= other].index

Payload(text) == [kind |-> "payload", code |-> "", text |-> text]

\* an error thrown inside the handler's try block
Thrown(code, message) == [kind |-> "thrown", code |-> code, text |-> message]

McpError(code, message) == [kind |-> "error", code |-> code, text |-> message]

\* error instanceof Error ? error.message : 'Unknown error'
errorMessage(kind) == IF kind = "string" THEN "Unknown error" ELSE kind

\* the entry point is started for a configuration
StartServer(c) ==
    /\ servePc = "off"
    /\ servePc' = "listening"
    /\ serveConfig' = c
    /\ UNCHANGED <<serveRequest, serveTool, toolTrace, serveResponse>>
    /\ UNCHANGED <<resolverVars, envVars, builderVars, renderVars>>
    /\ UNCHANGED <<matcherVars, deployVars, cliVars>>

\* a CallTool request arrives: const { name, arguments: args } = request.params
CallTool(name, args) ==
    /\ servePc = "listening"
    /\ servePc' = "dispatch"
    /\ serveRequest' = [name |-> name, args |-> args]
    /\ UNCHANGED <<serveConfig, serveTool, toolTrace, serveResponse>>
    /\ UNCHANGED <<resolverVars, envVars, builderVars, renderVars>>
    /\ UNCHANGED <<matcherVars, deployVars, cliVars>>

\* try { switch (name) { case ...: return await tool(args); default: throw
\* new McpError(ErrorCode.MethodNotFound, ...) } }
Dispatch ==
    /\ servePc = "dispatch"
    /\ LET target == DispatchTarget(serveConfig, serveRequest.name)
       IN  IF target # 0
           THEN /\ servePc' = "validate"
                /\ serveTool' = target
                /\ UNCHANGED serveResponse
           ELSE /\ servePc' = "catch"
                /\ serveResponse' = Thrown("MethodNotFound",
                                           "Unknown tool: " \o serveRequest.name)
                /\ UNCHANGED serveTool
    /\ UNCHANGED <<serveConfig, serveRequest, toolTrace>>
    /\ UNCHANGED <<resolverVars, envVars, builderVars, renderVars>>
    /\ UNCHANGED <<matcherVars, deployVars, cliVars>>

\* the tool function: const validatedArgs = schema.parse(args), before its try
\* block; parse throws a ZodError for arguments that do not satisfy the schema
Validate ==
    /\ servePc = "validate"
    /\ IF serveRequest.args = "valid"
       THEN /\ servePc' = "body"
            /\ toolTrace' = [toolTrace EXCEPT !.validated = TRUE]
            /\ UNCHANGED serveResponse
       ELSE /\ servePc' = "catch"
            /\ toolTrace' = [toolTrace EXCEPT !.outcome = "threw"]
            /\ serveResponse' = Thrown("ZodError", "ZodError")
    /\ UNCHANGED <<serveConfig, serveRequest, serveTool>>
    /\ UNCHANGED <<resolverVars, envVars, builderVars, renderVars>>
    /\ UNCHANGED <<matcherVars, deployVars, cliVars>>

\* the tool function's try block runs the implementation, or the default
\* body, to its return; the handler returns what the tool returned
BodyReturns ==
    /\ servePc = "body"
    /\ servePc' = "responded"
    /\ toolTrace' = [toolTrace EXCEPT !.bodyRan = TRUE, !.outcome = "returned"]
    /\ serveResponse' = Payload("result")
    /\ UNCHANGED <<serveConfig, serveRequest, serveTool>>
    /\ UNCHANGED <<resolverVars, envVars, builderVars, renderVars>>
    /\ UNCHANGED <<matcherVars, deployVars, cliVars>>

\* the implementation throws: the tool function's catch returns a payload
\* with the text 'Error in {{name}} tool: ...'
BodyThrows(kind) ==
    /\ servePc = "body"
    /\ serveConfig.customTools[serveTool].implementation # ""
    /\ servePc' = "responded"
    /\ toolTrace' = [toolTrace EXCEPT !.bodyRan = TRUE, !.outcome = "returned"]
    /\ serveResponse' =
         Payload("Error in " \o Mustache("name", serveConfig.customTools[serveTool].name)
                 \o " tool: " \o errorMessage(kind))
    /\ UNCHANGED <<serveConfig, serveRequest, serveTool>>
    /\ UNCHANGED <<resolverVars, envVars, builderVars, renderVars>>
    /\ UNCHANGED <<matcherVars, deployVars, cliVars>>

\* the handler's catch: whatever was thrown in the try block is replaced by
\* new McpError(ErrorCode.InternalError, 'Error executing tool ...')
HandlerCatch ==
    /\ servePc = "catch"
    /\ servePc' = "responded"
    /\ serveResponse' = McpError("InternalError",
            "Error executing tool " \o serveRequest.name \o ": " \o serveResponse.text)
    /\ UNCHANGED <<serveConfig, serveRequest, serveTool, toolTrace>>
    /\ UNCHANGED <<resolverVars, envVars, builderVars, renderVars>>
    /\ UNCHANGED <<matcherVars, deployVars, cliVars>>

InitServe == ResolverInit /\ EnvIdle /\ BuilderInit /\ RenderInit /\ OtherIdle

NextServe ==
    \/ \E c \in ServeConfigs : StartServer(c)
    \/ \E name \in RequestNames, args \in RequestArguments : CallTool(name, args)
    \/ Dispatch
    \/ Validate
    \/ BodyReturns
    \/ \E kind \in BodyFailures : BodyThrows(kind)
    \/ HandlerCatch

SpecServe == InitServe /\ [][NextServe]_vars

\* C25: a generated tool function never throws, whatever the arguments: it
\* validates them before its body runs, the body never runs on arguments
\* that fail validation, and the call ends with a payload returned.
C25_ToolFunctionNeverThrows ==
    /\ toolTrace.outcome # "threw"
    /\ toolTrace.bodyRan => (toolTrace.validated /\ serveRequest.args = "valid")
    /\ (servePc = "responded" /\ serveTool # 0) =>
         (toolTrace.outcome = "returned" /\ serveResponse.kind = "payload")

\* C30: a request naming none of the tools listed is answered with an
\* McpError of code MethodNotFound, never InternalError; a request naming a
\* listed tool reaches the function of a tool listed under that name.
C30_UnknownToolMethodNotFound ==
    servePc = "responded" =>
        IF serveRequest.name \in ListedNames(serveConfig)
        THEN /\ serveTool # 0
             /\ Mustache("kebabCase", serveConfig.customTools[serveTool].name)
                  = serveRequest.name
        ELSE /\ serveTool = 0
             /\ serveResponse = McpError("MethodNotFound",
                                         "Unknown tool: " \o serveRequest.name)

-----------------------------------------------------------------------------
(* The deployment adapters: AWSLambdaAdapter.deploy and VercelAdapter.deploy *)

\* One awaited call of deploy: the private method it is made in (step), the
\* call, the call awaited after it when it succeeds (0: the method sequence
\* is over and deploy returns), and what a failure of it does: it is thrown
\* to deploy's catch (fatal), or it is caught inside the method and the call
\* onFailure is awaited next (0 as before).
DeployCall(step, call, next, fatal, onFailure) ==
    [step |-> step, call |-> call, next |-> next, fatal |-> fatal, onFailure |-> onFailure]

\* AWSLambdaAdapter: createLambdaFiles, buildProject, packageForLambda,
\* deployToLambda; calls 8 and 10, 11 are those of an existing function,
\* calls 9 and 12 those of a new one
LambdaCalls == <<
    DeployCall("createLambdaFiles", "writeFile lambda-handler.ts", 2, TRUE, 0),
    DeployCall("createLambdaFiles", "writeFile lambda-trust-policy.json", 3, TRUE, 0),
    DeployCall("createLambdaFiles", "writeFile cloudformation-template.json", 4, TRUE, 0),
    DeployCall("buildProject", "npm install", 5, TRUE, 0),
    DeployCall("buildProject", "npm run build", 6, TRUE, 0),
    DeployCall("packageForLambda", "zip", 7, TRUE, 0),
    DeployCall("deployToLambda", "getFunction", 8, FALSE, 9),
    DeployCall("deployToLambda", "readFileSync", 10, TRUE, 0),
    DeployCall("deployToLambda", "readFileSync", 12, TRUE, 0),
    DeployCall("deployToLambda", "updateFunctionCode", 11, TRUE, 0),
    DeployCall("deployToLambda", "updateFunctionConfiguration", 13, TRUE, 0),
    DeployCall("deployToLambda", "createFunction", 13, TRUE, 0),
    DeployCall("deployToLambda", "createFunctionUrlConfig", 0, FALSE, 14),
    DeployCall("deployToLambda", "getFunctionUrlConfig", 0, FALSE, 0) >>

\* VercelAdapter: createVercelFiles, buildProject, deployToVercel
VercelCalls == <<
    DeployCall("createVercelFiles", "writeFile vercel.json", 2, TRUE, 0),
    DeployCall("createVercelFiles", "mkdir api", 3, TRUE, 0),
    DeployCall("createVercelFiles", "writeFile api/mcp.ts", 4, TRUE, 0),
    DeployCall("createVercelFiles", "writeFile api/health.ts", 5, TRUE, 0),
    DeployCall("createVercelFiles", "readFile package.json", 6, TRUE, 0),
    DeployCall("createVercelFiles", "writeFile package.json", 7, TRUE, 0),
    DeployCall("createVercelFiles", "writeFile .vercelignore", 8, TRUE, 0),
    DeployCall("buildProject", "npm install", 9, TRUE, 0),
    DeployCall("buildProject", "npm run build", 10, TRUE, 0),
    DeployCall("deployToVercel", "vercel --version", 12, FALSE, 11),
    DeployCall("deployToVercel", "npm install -g vercel", 12, TRUE, 0),
    DeployCall("deployToVercel", "vercel --prod", 13, TRUE, 0),
    DeployCall("deployToVercel", "getDeploymentInfo", 0, FALSE, 0) >>

Adapters == {"lambda", "vercel"}

CallsOf(adapter) == IF adapter = "lambda" THEN LambdaCalls ELSE VercelCalls

\* the messages of the errors a call fails with; "string" is a thrown value
\* that is no Error
DeployFailures == {"ENOENT", "AccessDenied", "string"}

\* error instanceof Error ? error.message : 'Unknown deployment error'
deploymentError(failure) ==
    IF failure = "string" THEN "Unknown deployment error" ELSE failure

\* deploy without its try/catch: the error of the failing step is thrown on
deployCatch_Rethrown(failure) ==
    [pc |-> "threw", result |-> [success |-> FALSE, error |-> "", returned |-> FALSE]]

\* } catch (error) { return { success: false, error: ..., logs: [] }; }
deployCatch(failure) ==
    [pc |-> "returned",
     result |-> [success |-> FALSE, error |-> deploymentError(failure), returned |-> TRUE]]

DeployLogged(outcome) ==
    deployCalls' = Append(deployCalls,
        [step |-> CallsOf(deployAdapter)[deployNode].step,
         call |-> CallsOf(deployAdapter)[deployNode].call,
         outcome |-> outcome])

\* the awaited call went well, or failed inside a try block of its method:
\* the next call is awaited, or the last method returns and deploy returns
\* { success: true, ... }
DeployGoesOn(next) ==
    IF next # 0
    THEN deployNode' = next /\ UNCHANGED <<deployPc, deployResult>>
    ELSE /\ deployNode' = 0
         /\ deployPc' = "returned"
         /\ deployResult' = [success |-> TRUE, error |-> "", returned |-> TRUE]

\* adapter.deploy(projectPath)
StartDeploy(adapter) ==
    /\ deployPc = "idle"
    /\ deployPc' = "running"
    /\ deployAdapter' = adapter
    /\ deployNode' = 1
    /\ UNCHANGED <<deployCalls, deployResult>>
    /\ UNCHANGED <<resolverVars, envVars, builderVars, renderVars>>
    /\ UNCHANGED <<matcherVars, serveVars, cliVars>>

DeployCallSucceeds ==
    /\ deployPc = "running"
    /\ DeployLogged("ok")
    /\ DeployGoesOn(CallsOf(deployAdapter)[deployNode].next)
    /\ UNCHANGED deployAdapter
    /\ UNCHANGED <<resolverVars, envVars, builderVars, renderVars>>
    /\ UNCHANGED <<matcherVars, serveVars, cliVars>>

DeployCallFails(failure) ==
    /\ deployPc = "running"
    /\ IF CallsOf(deployAdapter)[deployNode].fatal
       THEN /\ DeployLogged("failed")
            /\ deployPc' = deployCatch(failure).pc
            /\ deployResult' = deployCatch(failure).result
            /\ deployNode' = 0
       ELSE /\ DeployLogged("caught")
            /\ DeployGoesOn(CallsOf(deployAdapter)[deployNode].onFailure)
    /\ UNCHANGED deployAdapter
    /\ UNCHANGED <<resolverVars, envVars, builderVars, renderVars>>
    /\ UNCHANGED <<matcherVars, serveVars, cliVars>>

\* the vercel command ends well but prints no URL: deployToVercel throws
\* 'Could not extract deployment URL from Vercel output'
NoDeploymentUrl ==
    /\ deployPc = "running"
    /\ CallsOf(deployAdapter)[deployNode].call = "vercel --prod"
    /\ DeployLogged("failed")
    /\ deployPc' = deployCatch("Could not extract deployment URL from Vercel output").pc
    /\ deployResult' = deployCatch("Could not extract deployment URL from Vercel output").result
    /\ deployNode' = 0
    /\ UNCHANGED deployAdapter
    /\ UNCHANGED <<resolverVars, envVars, builderVars, renderVars>>
    /\ UNCHANGED <<matcherVars, serveVars, cliVars>>

InitDeploy == ResolverInit /\ EnvIdle /\ BuilderInit /\ RenderInit /\ OtherIdle

NextDeploy ==
    \/ \E adapter \in Adapters : StartDeploy(adapter)
    \/ DeployCallSucceeds
    \/ \E failure \in DeployFailures : DeployCallFails(failure)
    \/ NoDeploymentUrl

SpecDeploy == InitDeploy /\ [][NextDeploy]_vars

\* the place of a method in the order of deploy: create the platform files,
\* build, package, deploy (the Vercel adapter has no method that packages)
StepRank(step) ==
    CASE step \in {"createLambdaFiles", "createVercelFiles"} -> 1
      [] step = "buildProject" -> 2
      [] step = "packageForLambda" -> 3
      [] step \in {"deployToLambda", "deployToVercel"} -> 4

\* the methods of an adapter's deploy
StepsOf(adapter) == {CallsOf(adapter)[k].step : k \in 1..Len(CallsOf(adapter))}

\* C28: deploy never throws; the calls it makes are those of its steps in
\* order (create platform files, build, package, deploy); after a step has
\* failed no call is made; deploy then returns success = false with an error
\* message, and it returns success = true only when no step failed and
\* every step of the adapter has run.
C28_DeployNeverThrows ==
    /\ deployPc # "threw"
    /\ \A k1, k2 \in 1..Len(deployCalls) :
         k1 < k2 => StepRank(deployCalls[k1].step) <= StepRank(deployCalls[k2].step)
    /\ \A k \in 1..Len(deployCalls) :
         deployCalls[k].outcome = "failed" =>
            /\ k = Len(deployCalls)
            /\ deployPc = "returned"
            /\ ~deployResult.success
    /\ deployPc = "returned" =>
         /\ deployResult.returned
         /\ deployResult.success =
              (deployCalls[Len(deployCalls)].outcome # "failed")
         /\ deployResult.success =>
              {deployCalls[k].step : k \in 1..Len(deployCalls)} = StepsOf(deployAdapter)
         /\ ~deployResult.success => deployResult.error # ""
    /\ deployPc # "returned" => deployResult = NoDeployment

\* the packaging of a Lambda deployment failed after the files were created
\* and the project built: deploy returned the failure
C28_Witness ==
    /\ deployPc = "returned"
    /\ deployAdapter = "lambda"
    /\ Len(deployCalls) = 6
    /\ deployCalls[6].step = "packageForLambda"
    /\ deployCalls[6].outcome = "failed"
    /\ deployResult = [success |-> FALSE, error |-> "Unknown deployment error",
                       returned |-> TRUE]

-----------------------------------------------------------------------------
(* The command line: generateCommand *)

\* the options of the command; install is true unless --no-install is given
CliOptionSets ==
    { [description |-> d, install |-> i, deploy |-> p] :
        d \in {"", "GitHub API tools and Slack notifications"},
        i \in BOOLEAN,
        p \in {"", "vercel"} }

\* the output directory before the command: absent, or holding files
CliDirectories == {"absent", "preexisting"}

CliDid(op) == cliLog' = Append(cliLog, op)

\* generateCommand(options)
GenerateCommand(options, directory) ==
    /\ cliPc = "idle"
    /\ cliOptions' = options
    /\ cliDir' = directory
    /\ cliPc' = IF options.description = "" THEN "promptDescription" ELSE "pathExists"
    /\ UNCHANGED cliLog
    /\ UNCHANGED <<resolverVars, envVars, builderVars, renderVars>>
    /\ UNCHANGED <<matcherVars, serveVars, deployVars>>

\* the description is asked for and given
AnswerDescription ==
    /\ cliPc = "promptDescription"
    /\ cliPc' = "pathExists"
    /\ UNCHANGED <<cliOptions, cliDir, cliLog>>
    /\ UNCHANGED <<resolverVars, envVars, builderVars, renderVars>>
    /\ UNCHANGED <<matcherVars, serveVars, deployVars>>

\* if (await fs.pathExists(outputPath))
PathExists ==
    /\ cliPc = "pathExists"
    /\ cliPc' = IF cliDir = "absent" THEN "generateServerConfig" ELSE "promptOverwrite"
    /\ CliDid(IF cliDir = "absent" THEN "pathExists: no" ELSE "pathExists: yes")
    /\ UNCHANGED <<cliOptions, cliDir>>
    /\ UNCHANGED <<resolverVars, envVars, builderVars, renderVars>>
    /\ UNCHANGED <<matcherVars, serveVars, deployVars>>

\* 'Directory ... already exists. Overwrite?': no prints 'Generation
\* cancelled.' and returns, yes goes on to fs.remove
AnswerOverwrite(overwrite) ==
    /\ cliPc = "promptOverwrite"
    /\ IF overwrite
       THEN cliPc' = "remove" /\ UNCHANGED cliLog
       ELSE cliPc' = "cancelled" /\ CliDid("print: Generation cancelled.")
    /\ UNCHANGED <<cliOptions, cliDir>>
    /\ UNCHANGED <<resolverVars, envVars, builderVars, renderVars>>
    /\ UNCHANGED <<matcherVars, serveVars, deployVars>>

\* await fs.remove(outputPath)
Remove ==
    /\ cliPc = "remove"
    /\ cliPc' = "generateServerConfig"
    /\ cliDir' = "absent"
    /\ CliDid("remove")
    /\ UNCHANGED cliOptions
    /\ UNCHANGED <<resolverVars, envVars, builderVars, renderVars>>
    /\ UNCHANGED <<matcherVars, serveVars, deployVars>>

\* fs.remove rejects, with nothing or with part of the directory removed:
\* the catch of generateCommand prints the error and exits
RemoveFails(left) ==
    /\ cliPc = "remove"
    /\ cliPc' = "failed"
    /\ cliDir' = left
    /\ CliDid("remove failed")
    /\ UNCHANGED cliOptions
    /\ UNCHANGED <<resolverVars, envVars, builderVars, renderVars>>
    /\ UNCHANGED <<matcherVars, serveVars, deployVars>>

\* await generator.generateServerConfig(description) returns and the
\* analysis results are printed
ServerConfigReturned ==
    /\ cliPc = "generateServerConfig"
    /\ cliPc' = "promptProceed"
    /\ UNCHANGED <<cliOptions, cliDir, cliLog>>
    /\ UNCHANGED <<resolverVars, envVars, builderVars, renderVars>>
    /\ UNCHANGED <<matcherVars, serveVars, deployVars>>

\* generateServerConfig throws
ServerConfigFails ==
    /\ cliPc = "generateServerConfig"
    /\ cliPc' = "failed"
    /\ CliDid("print: Generation failed")
    /\ UNCHANGED <<cliOptions, cliDir>>
    /\ UNCHANGED <<resolverVars, envVars, builderVars, renderVars>>
    /\ UNCHANGED <<matcherVars, serveVars, deployVars>>

\* 'Generate server with these configurations?'
AnswerProceed(proceed) ==
    /\ cliPc = "promptProceed"
    /\ IF proceed
       THEN cliPc' = "scaffoldProject" /\ UNCHANGED cliLog
       ELSE cliPc' = "cancelled" /\ CliDid("print: Generation cancelled.")
    /\ UNCHANGED <<cliOptions, cliDir>>
    /\ UNCHANGED <<resolverVars, envVars, builderVars, renderVars>>
    /\ UNCHANGED <<matcherVars, serveVars, deployVars>>

\* the step after the code is generated, and after the dependencies
AfterInstall(options) == IF options.deploy # "" THEN "handleDeployment" ELSE "done"

AfterScaffold(options) == IF options.install THEN "installDependencies" ELSE AfterInstall(options)

\* await generator.scaffoldProject(serverConfig, outputPath)
ScaffoldProject ==
    /\ cliPc = "scaffoldProject"
    /\ cliPc' = AfterScaffold(cliOptions)
    /\ cliDir' = "generated"
    /\ CliDid("scaffoldProject")
    /\ UNCHANGED cliOptions
    /\ UNCHANGED <<resolverVars, envVars, builderVars, renderVars>>
    /\ UNCHANGED <<matcherVars, serveVars, deployVars>>

ScaffoldProjectFails ==
    /\ cliPc = "scaffoldProject"
    /\ cliPc' = "failed"
    /\ cliDir' = "partly generated"
    /\ CliDid("scaffoldProject failed")
    /\ UNCHANGED cliOptions
    /\ UNCHANGED <<resolverVars, envVars, builderVars, renderVars>>
    /\ UNCHANGED <<matcherVars, serveVars, deployVars>>

\* await generator.installDependencies(outputPath), in a try block of its
\* own: a failure is reported and the command goes on
InstallDependencies(outcome) ==
    /\ cliPc = "installDependencies"
    /\ cliPc' = AfterInstall(cliOptions)
    /\ CliDid("installDependencies: " \o outcome)
    /\ UNCHANGED <<cliOptions, cliDir>>
    /\ UNCHANGED <<resolverVars, envVars, builderVars, renderVars>>
    /\ UNCHANGED <<matcherVars, serveVars, deployVars>>

\* await handleDeployment(options.deploy, outputPath, serverConfig)
HandleDeployment ==
    /\ cliPc = "handleDeployment"
    /\ cliPc' = "done"
    /\ CliDid("handleDeployment")
    /\ UNCHANGED <<cliOptions, cliDir>>
    /\ UNCHANGED <<resolverVars, envVars, builderVars, renderVars>>
    /\ UNCHANGED <<matcherVars, serveVars, deployVars>>

InitCli == ResolverInit /\ EnvIdle /\ BuilderInit /\ RenderInit /\ OtherIdle

NextCli ==
    \/ \E options \in CliOptionSets, directory \in CliDirectories :
            GenerateCommand(options, directory)
    \/ AnswerDescription
    \/ PathExists
    \/ \E overwrite \in BOOLEAN : AnswerOverwrite(overwrite)
    \/ Remove
    \/ \E left \in {"preexisting", "partly removed"} : RemoveFails(left)
    \/ ServerConfigReturned
    \/ ServerConfigFails
    \/ \E proceed \in BOOLEAN : AnswerProceed(proceed)
    \/ ScaffoldProject
    \/ ScaffoldProjectFails
    \/ \E outcome \in {"ok", "failed"} : InstallDependencies(outcome)
    \/ HandleDeployment

SpecCli == InitCli /\ [][NextCli]_vars

\* C29: when generateCommand has ended with 'Generation cancelled.' and the
\* output directory existed before, the directory is as it was: the command
\* has removed nothing from it and written nothing to it.
C29_CancelLeavesDirectory ==
    (cliPc = "cancelled" /\ cliLog[1] = "pathExists: yes") =>
        /\ cliDir = "preexisting"
        /\ \A k \in 1..Len(cliLog) :
             cliLog[k] \in {"pathExists: yes", "print: Generation cancelled."}

====
